---------------------------- MODULE Spec2Model ----------------------------
(***************************************************************************)
(* A model of prismapilot's decorator layer (advanced-features) on top of  *)
(* the base query builder.  JavaScript objects are functions whose DOMAIN  *)
(* is the set of own keys; every primitive value is a string, and the      *)
(* values `undefined` and `null` are the strings Undefined and Null.       *)
(***************************************************************************)
EXTENDS Integers, Sequences, FiniteSets, TLC

VARIABLES
    calls,      \* call id -> the state of that asynchronous invocation
    now,        \* Date.now()
    ticks,      \* how many times the clock has advanced
    cache,      \* InMemoryCache.cache : key -> {value, expiry}
    posts,      \* call id -> the webhook POST that call has initiated
    logged,     \* the errors written with console.error
    table,      \* the record set a cursor walk pages through
    walk,       \* a client paging through table with cursorQueryBuilder
    batch,      \* the batchQueryBuilder invocation and its executions
    presets,    \* the presets Map : name -> options
    history,    \* the preset operations called so far, in order
    outcome,    \* what the last synchronous preset operation returned or threw
    metricsCallback,  \* the registered metrics observer, or Null
    observed,   \* the observer invocations so far, in order
    csv,        \* a toCSV conversion: its input rows and its output
    eval        \* a helper function applied to an input, and what it returned

vars == <<calls, now, ticks, cache, posts, logged, table, walk, batch,
          presets, history, outcome, metricsCallback, observed, csv, eval>>
hookVars == <<posts, logged>>
walkVars == <<table, walk>>
presetVars == <<presets, history, outcome>>
monitorVars == <<metricsCallback, observed>>
restVars == <<batch, presets, history, outcome, metricsCallback, observed, csv, eval>>

-----------------------------------------------------------------------------
(* Bounds *)

MaxCalls == 2
MaxTicks == 2
MaxRows == 4
MaxBatch == 2
MaxOps == 3
MaxRegs == 2
MaxLen == 2
MaxFilters == 3
MaxTotal == 12
MaxPageSize == 5

CallIds == 1..MaxCalls

-----------------------------------------------------------------------------
(* JavaScript values and objects *)

Undefined == "undefined"
Null == "null"

\* the object literal {}
EmptyObject == [k \in {} |-> Undefined]

\* an object with the single computed key [k]: v
Obj(k, v) == [x \in {k} |-> v]

\* {...a, ...b}: own keys of both, b's value where both have the key
Spread(a, b) == [k \in (DOMAIN a) \cup (DOMAIN b) |-> IF k \in DOMAIN b THEN b[k] ELSE a[k]]

\* o.k where a missing property reads as undefined
Get(o, k) == IF k \in DOMAIN o THEN o[k] ELSE Undefined

\* a destructuring default: `x = d` applies only to undefined
Default(v, d) == IF v = Undefined THEN d ELSE v

\* the booleans, and the truthiness test of `if (v)` and `!v`
JsTrue == "true"
JsFalse == "false"
Truthy(v) == v \notin {Undefined, Null, JsFalse, ""}

\* options.filters spread into an object literal (undefined spreads nothing)
FiltersOf(options) == IF "filters" \in DOMAIN options THEN options.filters ELSE EmptyObject


-----------------------------------------------------------------------------
(* The data store behind the executor: two model handles and their rows, in *)
(* the order the executor returns them.                                     *)

\* a BigInt column value, as Prisma returns it for a BigInt field
BigIntValue == "9007199254740993n"

Tables ==
    [user |-> << [id |-> "u1", tenantId |-> "t1", orgId |-> "o1", deletedAt |-> Null, removedAt |-> "d1"],
                 [id |-> "u2", tenantId |-> "t1", orgId |-> "o2", deletedAt |-> "d1", removedAt |-> Null],
                 [id |-> "u3", tenantId |-> "t2", orgId |-> "o1", deletedAt |-> "d2", removedAt |-> Null],
                 [id |-> "u4", tenantId |-> "t2", orgId |-> "o2", deletedAt |-> Null, removedAt |-> "d1"] >>,
     order |-> << [id |-> "o1", status |-> "PAID", amount |-> "100"],
                  [id |-> "o2", status |-> "PENDING", amount |-> BigIntValue] >>,
     event |-> [i \in 1..101 |-> [id |-> i]]]

\* the filter condition objects {not: null} and {equals: null}
NotNull == "{not:null}"
EqualsNull == "{equals:null}"

\* the executor's meaning of one condition on one cell
Matches(cond, cell) ==
    IF cond = NotNull THEN cell # Null
    ELSE IF cond = EqualsNull THEN cell = Null
    ELSE cell = cond

-----------------------------------------------------------------------------
(* The base query builder (query-builder, filters, pagination)              *)

DEFAULT_PAGE == 1
DEFAULT_LIMIT == 10
MAX_LIMIT == 100

\* the condition objects {from, to} and [a, b] a caller may give, and the
\* executor conditions {gte, lte} and {in: [a, b]} they compile to
RangeFromTo == "{from:f,to:t}"
GteLte == "{gte:f,lte:t}"
ArrayAB == "[a,b]"
InAB == "{in:[a,b]}"

\* dispatch by value shape: a range becomes its bounds, an array a
\* membership test, anything else is an exact match on the value
CompileCondition(cond) ==
    IF cond = RangeFromTo THEN GteLte
    ELSE IF cond = ArrayAB THEN InAB
    ELSE cond

\* compileFilters: an undefined value is dropped, every other key is a leaf
\* of the conjunction
buildFilters(filters) ==
    [k \in {x \in DOMAIN filters : filters[x] # Undefined} |-> CompileCondition(filters[k])]

\* a variant that wraps a single input in an AND node too
combineFiltersWrapsSingle(filters) ==
    IF Len(filters) = 0 THEN EmptyObject ELSE [AND |-> filters]

\* combineFilters(...filters): no input is no constraint, one input is
\* returned as it is, several are the children of one AND node
combineFilters(filters) ==
    IF Len(filters) = 0 THEN EmptyObject
    ELSE IF Len(filters) = 1 THEN filters[1]
    ELSE [AND |-> filters]

RowMatches(row, where) == \A k \in DOMAIN where : Matches(where[k], row[k])

\* computeOffset: page and limit defaulted and clamped
getPagination(options) ==
    LET page == IF "page" \in DOMAIN options /\ options.page >= 1 THEN options.page ELSE DEFAULT_PAGE
        asked == IF "limit" \in DOMAIN options /\ options.limit >= 1 THEN options.limit ELSE DEFAULT_LIMIT
        limit == IF asked > MAX_LIMIT THEN MAX_LIMIT ELSE asked
    IN [page |-> page, limit |-> limit, take |-> limit, skip |-> (page - 1) * limit]

\* a variant that rounds down
calculateTotalPagesFloor(total, limit) == total \div limit

\* Math.ceil(total / limit)
calculateTotalPages(total, limit) == (total + limit - 1) \div limit

\* the executor's take/skip window over the matching rows
Window(rows, skip, take) ==
    SubSeq(rows, skip + 1, IF skip + take > Len(rows) THEN Len(rows) ELSE skip + take)

\* the plan the assembler hands to the executor
QueryPlan(options) ==
    LET pg == getPagination(options)
    IN [where |-> buildFilters(FiltersOf(options)), take |-> pg.take, skip |-> pg.skip]

\* queryBuilder's response envelope for a successful execution; ref is the
\* identity of the response object that execution allocates
queryBuilder(options, ref) ==
    LET plan == QueryPlan(options)
        pg == getPagination(options)
        Hit(row) == RowMatches(row, plan.where)
        matching == SelectSeq(Tables[options.model], Hit)
    IN [ref |-> ref,
        data |-> Window(matching, plan.skip, plan.take),
        meta |-> [total |-> Len(matching), page |-> pg.page, limit |-> pg.limit,
                  totalPages |-> calculateTotalPages(Len(matching), pg.limit)]]

\* no response (a promise that has not been fulfilled)
NoResponse == [ref |-> 0, data |-> <<>>, meta |-> [total |-> 0, page |-> 0, limit |-> 0, totalPages |-> 0]]

-----------------------------------------------------------------------------
(* Cursor mode of the base query builder (query-builder, pagination)        *)

DEFAULT_CURSOR_FIELD == "id"
DEFAULT_SORT_ORDER == "desc"

\* a variant that does not skip the anchor row
getCursorPaginationKeepAnchor(cursor, limit, cursorField) ==
    [take |-> limit + 1, skip |-> 0,
     cursor |-> IF cursor = <<>> THEN <<>> ELSE <<Obj(cursorField, cursor[1])>>]

\* computeCursorWindow: one lookahead row, and the anchor row skipped
getCursorPagination(cursor, limit, cursorField) ==
    [take |-> limit + 1,
     skip |-> IF cursor = <<>> THEN 0 ELSE 1,
     cursor |-> IF cursor = <<>> THEN <<>> ELSE <<Obj(cursorField, cursor[1])>>]

\* a variant that drops the primary sort key's tie-breaker
CursorOrderByPrimaryOnly(args) ==
    LET cursorField == Default(Get(args, "cursorField"), DEFAULT_CURSOR_FIELD)
        sortBy == Default(Get(args, "sortBy"), cursorField)
        sortOrder == Default(Get(args, "sortOrder"), DEFAULT_SORT_ORDER)
    IN <<[field |-> sortBy, dir |-> sortOrder]>>

\* the primary sort key, and cursorField as the last key when it differs
CursorOrderBy(args) ==
    LET cursorField == Default(Get(args, "cursorField"), DEFAULT_CURSOR_FIELD)
        sortBy == Default(Get(args, "sortBy"), cursorField)
        sortOrder == Default(Get(args, "sortOrder"), DEFAULT_SORT_ORDER)
    IN IF sortBy = cursorField THEN <<[field |-> sortBy, dir |-> sortOrder]>>
       ELSE <<[field |-> sortBy, dir |-> sortOrder], [field |-> cursorField, dir |-> sortOrder]>>

\* the executor's ordering: row a before row b under the keys of orderBy from
\* position n on
RECURSIVE OrderedBefore(_, _, _, _)
OrderedBefore(a, b, orderBy, n) ==
    IF n > Len(orderBy) THEN FALSE
    ELSE LET f == orderBy[n].field
         IN IF a[f] = b[f] THEN OrderedBefore(a, b, orderBy, n + 1)
            ELSE IF orderBy[n].dir = "asc" THEN a[f] < b[f] ELSE a[f] > b[f]

\* the rows in the executor's order (rows equal under every key keep their
\* stored order)
SortRows(rows, orderBy) ==
    LET Ahead(i) == {j \in DOMAIN rows :
                        \/ OrderedBefore(rows[j], rows[i], orderBy, 1)
                        \/ ~OrderedBefore(rows[i], rows[j], orderBy, 1) /\ j < i}
    IN [p \in DOMAIN rows |-> rows[CHOOSE i \in DOMAIN rows : Cardinality(Ahead(i)) = p - 1]]

\* the executor's findMany with take, skip and a single-field cursor: the
\* window starts at the anchor row; an anchor that matches no row yields
\* no rows
FindManyCursor(rows, orderBy, page) ==
    LET sorted == SortRows(rows, orderBy)
    IN IF page.cursor = <<>> THEN Window(sorted, page.skip, page.take)
       ELSE LET anchor == page.cursor[1]
                field == CHOOSE k \in DOMAIN anchor : TRUE
                at == {i \in DOMAIN sorted : sorted[i][field] = anchor[field]}
            IN IF at = {} THEN <<>>
               ELSE LET a == CHOOSE i \in at : \A j \in at : i <= j
                    IN Window(SubSeq(sorted, a, Len(sorted)), page.skip, page.take)

\* a variant that returns the lookahead row with the page
processCursorResultsKeepsLookahead(rows, limit, cursorField) ==
    [data |-> rows, hasMore |-> Len(rows) > limit,
     nextCursor |-> IF Len(rows) > 0 THEN <<rows[Len(rows)][cursorField]>> ELSE <<>>]

\* a variant that returns no cursor with the last page
processCursorResultsNullAtEnd(rows, limit, cursorField) ==
    IF Len(rows) > limit
    THEN [data |-> SubSeq(rows, 1, limit), hasMore |-> TRUE,
          nextCursor |-> <<rows[limit][cursorField]>>]
    ELSE [data |-> rows, hasMore |-> FALSE, nextCursor |-> <<>>]

processCursorResults(rows, limit, cursorField) ==
    IF Len(rows) > limit
    THEN [data |-> SubSeq(rows, 1, limit), hasMore |-> TRUE,
          nextCursor |-> <<rows[limit][cursorField]>>]
    ELSE [data |-> rows, hasMore |-> FALSE,
          nextCursor |-> IF Len(rows) > 0 THEN <<rows[Len(rows)][cursorField]>> ELSE <<>>]

\* cursorQueryBuilder's response for a successful execution over `rows`;
\* nextCursor is <<>> for null
cursorQueryBuilderResponse(rows, args, limit, cursor) ==
    LET cursorField == Default(Get(args, "cursorField"), DEFAULT_CURSOR_FIELD)
        page == getCursorPagination(cursor, limit, cursorField)
        found == FindManyCursor(rows, CursorOrderBy(args), page)
        out == processCursorResults(found, limit, cursorField)
    IN [data |-> out.data,
        meta |-> [nextCursor |-> out.nextCursor, hasMore |-> out.hasMore, limit |-> limit]]

-----------------------------------------------------------------------------
(* Asynchronous invocations.  A call runs from one await to the next in one *)
(* step; pc names the await it is suspended at.                             *)

\* an optional argument: <<>> when the caller leaves it out, <<v>> otherwise
OrEmpty(arg) == IF arg = <<>> THEN EmptyObject ELSE arg[1]

IdleCall ==
    [kind |-> "none", pc |-> "idle", options |-> EmptyObject, config |-> EmptyObject,
     filter |-> EmptyObject, passed |-> EmptyObject, execs |-> 0,
     cached |-> NoResponse, reads |-> 0, writes |-> 0, held |-> "none",
     result |-> NoResponse, error |-> ""]

Settled(c) == calls[c].pc \in {"resolved", "rejected"}

\* a variant that wraps the failure of the base query in an error of its own
ReturnQueryWrapsFailure(c) ==
    /\ calls[c].pc = "awaitQuery"
    /\ calls[c].kind \in {"tenant", "softDelete", "cached", "preset"}
    /\ \E ok \in BOOLEAN :
         calls' = [calls EXCEPT ![c] =
                     IF ok THEN [@ EXCEPT !.pc = "resolved", !.result = queryBuilder(calls[c].passed, c)]
                     ELSE [@ EXCEPT !.pc = "rejected", !.error = "QueryError"]]
    /\ UNCHANGED <<now, ticks, cache, hookVars, walkVars, restVars>>

\* `return queryBuilder(passed)`: the call settles as the base query does
ReturnQuery(c) ==
    /\ calls[c].pc = "awaitQuery"
    /\ calls[c].kind \in {"tenant", "softDelete", "cached", "preset"}
    /\ \E ok \in BOOLEAN :
         calls' = [calls EXCEPT ![c] =
                     IF ok THEN [@ EXCEPT !.pc = "resolved", !.result = queryBuilder(calls[c].passed, c)]
                     ELSE [@ EXCEPT !.pc = "rejected", !.error = "UpstreamExecutionFailure"]]
    /\ UNCHANGED <<now, ticks, cache, hookVars, walkVars, restVars>>

-----------------------------------------------------------------------------
(* 1. Query caching *)

DEFAULT_TTL == 300000

\* a variant of get whose expiry comparison is reversed
InMemoryCacheGetReversed(store, key, t) ==
    IF key \notin DOMAIN store THEN [value |-> NoResponse, store |-> store]
    ELSE IF t < store[key].expiry
         THEN [value |-> NoResponse, store |-> [k \in DOMAIN store \ {key} |-> store[k]]]
         ELSE [value |-> store[key].value, store |-> store]

\* a variant of get without the expiry check
InMemoryCacheGetNoExpiry(store, key, t) ==
    IF key \notin DOMAIN store THEN [value |-> NoResponse, store |-> store]
    ELSE [value |-> store[key].value, store |-> store]

\* InMemoryCache.get at time t: the value returned (NoResponse for null) and
\* the map afterwards (an expired item is deleted by the read)
InMemoryCacheGet(store, key, t) ==
    IF key \notin DOMAIN store THEN [value |-> NoResponse, store |-> store]
    ELSE IF t > store[key].expiry
         THEN [value |-> NoResponse, store |-> [k \in DOMAIN store \ {key} |-> store[k]]]
         ELSE [value |-> store[key].value, store |-> store]

\* a variant of set that keeps an item already stored under the key
InMemoryCacheSetIfAbsent(store, key, value, ttl, t) ==
    IF key \in DOMAIN store THEN store
    ELSE Spread(store, Obj(key, [value |-> value, expiry |-> t + ttl]))

\* InMemoryCache.set at time t; ttl is already defaulted
InMemoryCacheSet(store, key, value, ttl, t) ==
    Spread(store, Obj(key, [value |-> value, expiry |-> t + ttl]))

\* generateCacheKey: the parts that are joined with ":" into the key, kept
\* apart (two requests with the same parts have the same key).  `x || d` is
\* d for a missing x, for 0 and for ""; the search and filters parts are
\* left out when the option is falsy; JSON.stringify(filters) is one-to-one
\* on the filter objects used here.
generateCacheKey(options) ==
    [model |-> IF "model" \in DOMAIN options THEN options.model ELSE "unknown",
     page |-> IF "page" \in DOMAIN options /\ options.page # 0 THEN options.page ELSE 1,
     limit |-> IF "limit" \in DOMAIN options /\ options.limit # 0 THEN options.limit ELSE 10,
     search |-> IF "search" \in DOMAIN options /\ options.search # "" THEN <<options.search>> ELSE <<>>,
     filters |-> IF "filters" \in DOMAIN options THEN <<options.filters>> ELSE <<>>,
     sort |-> <<IF "sortBy" \in DOMAIN options /\ options.sortBy # "" THEN options.sortBy ELSE "createdAt",
                IF "sortOrder" \in DOMAIN options /\ options.sortOrder # "" THEN options.sortOrder ELSE "desc">>]

\* set's default parameter `ttl = 300000`
TtlOf(cfg) == IF "ttl" \in DOMAIN cfg THEN cfg.ttl ELSE DEFAULT_TTL

\* a variant that bypasses the cache only for a missing key
BypassesKeyOnly(cfg) == ~Truthy(Get(cfg, "key"))

\* `!enabled || !key` with `enabled = true` as the default
Bypasses(cfg) ==
    \/ ~Truthy(Default(Get(cfg, "enabled"), JsTrue))
    \/ ~Truthy(Get(cfg, "key"))

\* what the store holds under the key of cfg at time t (recorded with the
\* call when it is made, for the properties below)
Held(store, cfg, t) ==
    IF "key" \notin DOMAIN cfg THEN "none"
    ELSE IF cfg.key \notin DOMAIN store THEN "none"
    ELSE IF t > store[cfg.key].expiry THEN "expired"
    ELSE "fresh"

\* cachedQueryBuilder up to its first await: either the direct
\* `return queryBuilder(options)` or `await cacheStore.get(key)`
cachedQueryBuilder(c, options, cacheConfig) ==
    /\ calls[c].pc = "idle"
    /\ LET cfg == OrEmpty(cacheConfig)
       IN IF Bypasses(cfg)
          THEN /\ calls' = [calls EXCEPT ![c] =
                             [@ EXCEPT !.kind = "cached", !.pc = "awaitQuery",
                                       !.options = options, !.config = cfg,
                                       !.passed = options, !.execs = @ + 1,
                                       !.held = Held(cache, cfg, now)]]
               /\ cache' = cache
          ELSE LET got == InMemoryCacheGet(cache, cfg.key, now)
               IN /\ calls' = [calls EXCEPT ![c] =
                                [@ EXCEPT !.kind = "cached", !.pc = "awaitGet",
                                          !.options = options, !.config = cfg,
                                          !.cached = got.value, !.reads = @ + 1,
                                          !.held = Held(cache, cfg, now)]]
                  /\ cache' = got.store
    /\ UNCHANGED <<now, ticks, hookVars, walkVars, restVars>>

\* after `await cacheStore.get(key)`: return the cached value, or start the
\* base query
cachedAfterGet(c) ==
    /\ calls[c].kind = "cached" /\ calls[c].pc = "awaitGet"
    /\ calls' = [calls EXCEPT ![c] =
                   IF calls[c].cached # NoResponse
                   THEN [@ EXCEPT !.pc = "resolved", !.result = calls[c].cached]
                   ELSE [@ EXCEPT !.pc = "awaitExec", !.passed = calls[c].options,
                                  !.execs = @ + 1]]
    /\ UNCHANGED <<now, ticks, cache, hookVars, walkVars, restVars>>

\* a variant that stores an empty response under the key when the query fails
cachedAfterQueryCachesFailure(c) ==
    /\ calls[c].kind = "cached" /\ calls[c].pc = "awaitExec"
    /\ \E ok \in BOOLEAN :
         IF ok
         THEN /\ cache' = InMemoryCacheSet(cache, calls[c].config.key, queryBuilder(calls[c].passed, c),
                                           TtlOf(calls[c].config), now)
              /\ calls' = [calls EXCEPT ![c] =
                             [@ EXCEPT !.pc = "awaitSet", !.result = queryBuilder(calls[c].passed, c),
                                       !.writes = @ + 1]]
         ELSE /\ cache' = InMemoryCacheSet(cache, calls[c].config.key,
                                           [NoResponse EXCEPT !.ref = c], TtlOf(calls[c].config), now)
              /\ calls' = [calls EXCEPT ![c] =
                             [@ EXCEPT !.pc = "rejected", !.error = "UpstreamExecutionFailure"]]
    /\ UNCHANGED <<now, ticks, hookVars, walkVars, restVars>>

\* after `await queryBuilder(options)`: a failure rejects the call, a result
\* is handed to cacheStore.set(key, result, ttl)
cachedAfterQuery(c) ==
    /\ calls[c].kind = "cached" /\ calls[c].pc = "awaitExec"
    /\ \E ok \in BOOLEAN :
         IF ok
         THEN LET result == queryBuilder(calls[c].passed, c)
                  key == calls[c].config.key
                  store == InMemoryCacheSet(cache, key, result, TtlOf(calls[c].config), now)
              IN /\ cache' = store
                 /\ calls' = [calls EXCEPT ![c] =
                                [@ EXCEPT !.pc = "awaitSet", !.result = result,
                                          !.writes = @ + 1]]
         ELSE /\ cache' = cache
              /\ calls' = [calls EXCEPT ![c] =
                             [@ EXCEPT !.pc = "rejected", !.error = "UpstreamExecutionFailure"]]
    /\ UNCHANGED <<now, ticks, hookVars, walkVars, restVars>>

\* after `await cacheStore.set(...)`: return result
cachedAfterSet(c) ==
    /\ calls[c].kind = "cached" /\ calls[c].pc = "awaitSet"
    /\ calls' = [calls EXCEPT ![c] = [@ EXCEPT !.pc = "resolved"]]
    /\ UNCHANGED <<now, ticks, cache, hookVars, walkVars, restVars>>

\* the clock advances
Tick(d) ==
    /\ ticks < MaxTicks
    /\ now' = now + d
    /\ ticks' = ticks + 1
    /\ UNCHANGED <<calls, cache, hookVars, walkVars, restVars>>

-----------------------------------------------------------------------------
(* 2. Query performance monitoring *)

SLOW_QUERY_THRESHOLD == 1000

\* a variant that also flags a query that took exactly the threshold
IsSlowFromThreshold(queryTime) == queryTime >= SLOW_QUERY_THRESHOLD

\* queryTime > SLOW_QUERY_THRESHOLD
IsSlow(queryTime) == queryTime > SLOW_QUERY_THRESHOLD

\* a variant of the assignment that keeps an observer already registered
RegisterKeepsFirst(slot, callback) == IF slot = Null THEN callback ELSE slot

\* metricsCallback = callback
Register(slot, callback) == callback

\* the observer whose body throws
ThrowingObserver == "thrower"

\* the metrics value of an execution that started at `start` and whose
\* result is inspected at `t`
QueryMetrics(result, start, t) ==
    [queryTime |-> t - start, resultCount |-> result.meta.total,
     isSlow |-> IsSlow(t - start), timestamp |-> t]

\* {...result, _metrics: metrics}
WithMetrics(result, metrics) ==
    [ref |-> result.ref, data |-> result.data, meta |-> result.meta, _metrics |-> metrics]

\* registrations are recorded in `observed` next to the invocations
onQueryMetrics(callback) ==
    /\ Cardinality({i \in DOMAIN observed : observed[i].kind = "register"}) < MaxRegs
    /\ metricsCallback' = Register(metricsCallback, callback)
    /\ observed' = Append(observed, [kind |-> "register", observer |-> callback, call |-> 0])
    /\ UNCHANGED <<calls, now, ticks, cache, hookVars, walkVars, batch, presetVars, csv, eval>>

\* monitoredQueryBuilder up to `await queryBuilder(options)`
monitoredQueryBuilder(c, options) ==
    /\ calls[c].pc = "idle"
    /\ calls' = [calls EXCEPT ![c] =
                   [@ EXCEPT !.kind = "monitored", !.pc = "awaitMonitoredQuery",
                             !.options = options, !.config = [start |-> now],
                             !.passed = options, !.execs = @ + 1]]
    /\ UNCHANGED <<now, ticks, cache, hookVars, walkVars, restVars>>

\* after the await: the metrics are computed, a slow query is warned about,
\* the registered observer (if any) is called, and the result is returned
\* with the metrics attached.  An observer that throws throws out of the
\* function.
monitoredAfterQuery(c) ==
    /\ calls[c].kind = "monitored" /\ calls[c].pc = "awaitMonitoredQuery"
    /\ \E ok \in BOOLEAN :
         IF ok
         THEN LET result == queryBuilder(calls[c].passed, c)
                  metrics == QueryMetrics(result, calls[c].config.start, now)
              IN /\ logged' = IF metrics.isSlow THEN Append(logged, "Slow query detected") ELSE logged
                 /\ observed' = IF metricsCallback # Null
                                THEN Append(observed, [kind |-> "invoke", observer |-> metricsCallback,
                                                       call |-> c, metrics |-> metrics,
                                                       options |-> calls[c].options])
                                ELSE observed
                 /\ calls' = [calls EXCEPT ![c] =
                                IF metricsCallback = ThrowingObserver
                                THEN [@ EXCEPT !.pc = "rejected", !.error = "ObserverError"]
                                ELSE [@ EXCEPT !.pc = "resolved", !.result = WithMetrics(result, metrics)]]
         ELSE /\ calls' = [calls EXCEPT ![c] =
                             [@ EXCEPT !.pc = "rejected", !.error = "UpstreamExecutionFailure"]]
              /\ UNCHANGED <<logged, observed>>
    /\ UNCHANGED <<now, ticks, cache, posts, walkVars, batch, presetVars, metricsCallback, csv, eval>>

-----------------------------------------------------------------------------
(* 3. Soft delete support *)

\* a variant that tests trashedOnly before includeTrashed
buildSoftDeleteFilterTrashedFirst(options) ==
    LET o == OrEmpty(options)
        includeTrashed == Default(Get(o, "includeTrashed"), JsFalse)
        trashedOnly == Default(Get(o, "trashedOnly"), JsFalse)
        deletedAtField == Default(Get(o, "deletedAtField"), "deletedAt")
    IN IF Truthy(trashedOnly) THEN Obj(deletedAtField, NotNull)
       ELSE IF Truthy(includeTrashed) THEN EmptyObject
       ELSE Obj(deletedAtField, EqualsNull)

buildSoftDeleteFilter(options) ==
    LET o == OrEmpty(options)
        includeTrashed == Default(Get(o, "includeTrashed"), JsFalse)
        trashedOnly == Default(Get(o, "trashedOnly"), JsFalse)
        deletedAtField == Default(Get(o, "deletedAtField"), "deletedAt")
    IN IF Truthy(includeTrashed) THEN EmptyObject
       ELSE IF Truthy(trashedOnly) THEN Obj(deletedAtField, NotNull)
       ELSE Obj(deletedAtField, EqualsNull)

\* the options softDeleteQueryBuilder passes to queryBuilder
SoftDeleteOptions(options, softDeleteFilter) ==
    Spread(options, Obj("filters", Spread(FiltersOf(options), softDeleteFilter)))

softDeleteQueryBuilder(c, options, softDeleteOptions) ==
    /\ calls[c].pc = "idle"
    /\ LET softDeleteFilter == buildSoftDeleteFilter(softDeleteOptions)
       IN calls' = [calls EXCEPT ![c] =
                      [@ EXCEPT !.kind = "softDelete", !.pc = "awaitQuery",
                                !.options = options, !.config = OrEmpty(softDeleteOptions),
                                !.filter = softDeleteFilter,
                                !.passed = SoftDeleteOptions(options, softDeleteFilter),
                                !.execs = @ + 1]]
    /\ UNCHANGED <<now, ticks, cache, hookVars, walkVars, restVars>>

-----------------------------------------------------------------------------
(* 4. Multi-tenant support *)

buildTenantFilter(tenantId, tenantField) ==
    Obj(Default(tenantField, "tenantId"), tenantId)

\* a variant in which the caller's filters are spread last
TenantOptionsCallerWins(options, tenantFilter) ==
    Spread(options, Obj("filters", Spread(tenantFilter, FiltersOf(options))))

\* the options tenantQueryBuilder passes to queryBuilder
TenantOptions(options, tenantFilter) ==
    Spread(options, Obj("filters", Spread(FiltersOf(options), tenantFilter)))

tenantQueryBuilder(c, options, tenantConfig) ==
    /\ calls[c].pc = "idle"
    /\ LET tenantId == Get(tenantConfig, "tenantId")
           tenantField == Default(Get(tenantConfig, "tenantField"), "tenantId")
           tenantFilter == buildTenantFilter(tenantId, tenantField)
       IN calls' = [calls EXCEPT ![c] =
                      [@ EXCEPT !.kind = "tenant", !.pc = "awaitQuery",
                                !.options = options, !.config = tenantConfig,
                                !.filter = tenantFilter,
                                !.passed = TenantOptions(options, tenantFilter),
                                !.execs = @ + 1]]
    /\ UNCHANGED <<now, ticks, cache, hookVars, walkVars, restVars>>

-----------------------------------------------------------------------------
(* 6. Export utilities: toCSV.  A string is a sequence of characters; an    *)
(* object is a sequence of (key, value) entries in insertion order.         *)

Comma == ","
Quote == "\""
LF == "\n"
CR == "\r"

\* array.join(sep) over the items from position n on
RECURSIVE JoinFrom(_, _, _)
JoinFrom(items, sep, n) ==
    IF n > Len(items) THEN <<>>
    ELSE IF n = Len(items) THEN items[n]
    ELSE items[n] \o <<sep>> \o JoinFrom(items, sep, n + 1)

Join(items, sep) == JoinFrom(items, sep, 1)

\* Object.keys(row)
ObjectKeys(row) == [i \in DOMAIN row |-> row[i].key]

\* row[header]: the value of the entry with that key, Undefined if none
Lookup(row, header) ==
    IF \E i \in DOMAIN row : row[i].key = header
    THEN <<row[CHOOSE i \in DOMAIN row : row[i].key = header].value>>
    ELSE <<>>

\* normalizeValue: undefined becomes the empty string, a string is kept
normalizeValue(value) == IF value = <<>> THEN <<>> ELSE value[1]

\* raw.replace(/"/g, '""') from position n on
RECURSIVE DoubleQuotes(_, _)
DoubleQuotes(raw, n) ==
    IF n > Len(raw) THEN <<>>
    ELSE (IF raw[n] = Quote THEN <<Quote, Quote>> ELSE <<raw[n]>>) \o DoubleQuotes(raw, n + 1)

needsQuotes(raw) == \E i \in DOMAIN raw : raw[i] \in {Comma, Quote, LF, CR}

escapeCsv(raw) ==
    IF needsQuotes(raw) THEN <<Quote>> \o DoubleQuotes(raw, 1) \o <<Quote>>
    ELSE DoubleQuotes(raw, 1)

toCSV(data) ==
    IF Len(data) = 0 THEN <<>>
    ELSE LET headers == ObjectKeys(data[1])
             csvHeaders == Join(headers, Comma)
             csvRows == [r \in DOMAIN data |->
                            Join([h \in DOMAIN headers |->
                                     escapeCsv(normalizeValue(Lookup(data[r], headers[h])))],
                                 Comma)]
         IN Join(<<csvHeaders>> \o csvRows, LF)

-----------------------------------------------------------------------------
(* 6. Export utilities: the query-and-export functions *)

DEFAULT_MAX_ROWS == 10000

\* what an export of `data` holds: the first row's keys as header and one
\* line (CSV) or element (JSON) per row
Exported(format, data) ==
    [format |-> format,
     header |-> IF data = <<>> THEN {} ELSE DOMAIN data[1],
     rows |-> data]

\* {...options, limit: maxRows}
ExportOptions(options, maxRows) ==
    Spread(options, Obj("limit", IF maxRows = <<>> THEN DEFAULT_MAX_ROWS ELSE maxRows[1]))

\* queryAndExportCSV / queryAndExportJSON up to `await queryBuilder(...)`
queryAndExport(c, format, options, maxRows) ==
    /\ calls[c].pc = "idle"
    /\ calls' = [calls EXCEPT ![c] =
                   [@ EXCEPT !.kind = "export", !.pc = "awaitExportQuery",
                             !.options = options,
                             !.config = [format |-> format, maxRows |-> maxRows],
                             !.passed = ExportOptions(options, maxRows),
                             !.execs = @ + 1]]
    /\ UNCHANGED <<now, ticks, cache, hookVars, walkVars, restVars>>

\* after the await: toCSV(result.data) or toJSON(result.data, pretty)
exportAfterQuery(c) ==
    /\ calls[c].kind = "export" /\ calls[c].pc = "awaitExportQuery"
    /\ \E ok \in BOOLEAN :
         calls' = [calls EXCEPT ![c] =
                     IF ok
                     THEN [@ EXCEPT !.pc = "resolved",
                                    !.result = Exported(calls[c].config.format,
                                                        queryBuilder(calls[c].passed, c).data)]
                     ELSE [@ EXCEPT !.pc = "rejected", !.error = "UpstreamExecutionFailure"]]
    /\ UNCHANGED <<now, ticks, cache, hookVars, walkVars, restVars>>

-----------------------------------------------------------------------------
(* 7. Query presets *)

\* a variant of Map.set that keeps an existing entry
PresetsSetKeepsFirst(map, name, options) ==
    IF name \in DOMAIN map THEN map ELSE Spread(map, Obj(name, options))

\* presets.set(name, options)
PresetsSet(map, name, options) == Spread(map, Obj(name, options))

\* presets.delete(name): the map without the key
PresetsDelete(map, name) == [k \in (DOMAIN map) \ {name} |-> map[k]]

\* loadQueryPreset(name): presets.get(name), and the throw on a falsy value
\* (a stored request is an object, which is never falsy)
loadQueryPreset(map, name) ==
    IF name \in DOMAIN map
    THEN [threw |-> FALSE, value |-> map[name]]
    ELSE [threw |-> TRUE, value |-> "Preset not found"]

\* a variant in which the stored request wins over the overrides
PresetRequestStoredWins(preset, overrides) == Spread(OrEmpty(overrides), preset)

\* {...preset, ...overrides}
PresetRequest(preset, overrides) == Spread(preset, OrEmpty(overrides))

saveQueryPreset(name, options) ==
    /\ Len(history) < MaxOps
    /\ presets' = PresetsSet(presets, name, options)
    /\ history' = Append(history, [op |-> "save", name |-> name, options |-> options])
    /\ outcome' = [op |-> "save", name |-> name, threw |-> FALSE, value |-> Undefined]
    /\ UNCHANGED <<calls, now, ticks, cache, hookVars, walkVars, batch, monitorVars, csv, eval>>

LoadQueryPreset(name) ==
    /\ Len(history) < MaxOps
    /\ history' = Append(history, [op |-> "load", name |-> name, options |-> EmptyObject])
    /\ outcome' = [op |-> "load", name |-> name,
                   threw |-> loadQueryPreset(presets, name).threw,
                   value |-> loadQueryPreset(presets, name).value]
    /\ UNCHANGED <<calls, now, ticks, cache, hookVars, walkVars, batch, presets, monitorVars, csv, eval>>

\* listPresets(): the keys (as a set; the claims do not depend on their order)
listPresets ==
    /\ Len(history) < MaxOps
    /\ history' = Append(history, [op |-> "list", name |-> "", options |-> EmptyObject])
    /\ outcome' = [op |-> "list", name |-> "", threw |-> FALSE, value |-> DOMAIN presets]
    /\ UNCHANGED <<calls, now, ticks, cache, hookVars, walkVars, batch, presets, monitorVars, csv, eval>>

deletePreset(name) ==
    /\ Len(history) < MaxOps
    /\ presets' = PresetsDelete(presets, name)
    /\ history' = Append(history, [op |-> "delete", name |-> name, options |-> EmptyObject])
    /\ outcome' = [op |-> "delete", name |-> name, threw |-> FALSE,
                   value |-> IF name \in DOMAIN presets THEN JsTrue ELSE JsFalse]
    /\ UNCHANGED <<calls, now, ticks, cache, hookVars, walkVars, batch, monitorVars, csv, eval>>

\* executePreset up to its return: loadQueryPreset throws inside the async
\* function, which rejects the call; otherwise queryBuilder is called with
\* the merged request and its promise returned
executePreset(c, name, overrides) ==
    /\ Len(history) < MaxOps
    /\ calls[c].pc = "idle"
    /\ history' = Append(history, [op |-> "execute", name |-> name, options |-> EmptyObject])
    /\ LET preset == loadQueryPreset(presets, name)
       IN calls' = [calls EXCEPT ![c] =
                      IF preset.threw
                      THEN [@ EXCEPT !.kind = "preset", !.pc = "rejected",
                                     !.config = [name |-> name, overrides |-> overrides],
                                     !.error = preset.value]
                      ELSE [@ EXCEPT !.kind = "preset", !.pc = "awaitQuery",
                                     !.config = [name |-> name, overrides |-> overrides],
                                     !.options = preset.value,
                                     !.passed = PresetRequest(preset.value, overrides),
                                     !.execs = @ + 1]]
    /\ UNCHANGED <<now, ticks, cache, hookVars, walkVars, batch, presets, outcome, monitorVars, csv, eval>>

-----------------------------------------------------------------------------
(* 8. Webhook integration *)

\* JSON.stringify throws a TypeError on a BigInt value
Serializable(rows) ==
    \A i \in DOMAIN rows : \A k \in DOMAIN rows[i] : rows[i][k] # BigIntValue

\* the object handed to JSON.stringify
WebhookBody(result, options, webhookOptions, t) ==
    Spread([data |-> result.data, meta |-> result.meta, timestamp |-> t],
           IF Truthy(Get(OrEmpty(webhookOptions), "includeQuery"))
           THEN Obj("query", options) ELSE EmptyObject)

WebhookHeaders(webhookOptions) ==
    Spread(Obj("Content-Type", "application/json"),
           IF "headers" \in DOMAIN OrEmpty(webhookOptions)
           THEN OrEmpty(webhookOptions).headers ELSE EmptyObject)

\* a variant that calls fetch before the base query has run
queryWithWebhookPostsFirst(c, options, webhookUrl, webhookOptions) ==
    /\ calls[c].pc = "idle"
    /\ calls' = [calls EXCEPT ![c] =
                   [@ EXCEPT !.kind = "webhook", !.pc = "awaitHookQuery",
                             !.options = options,
                             !.config = [webhookUrl |-> webhookUrl, webhookOptions |-> webhookOptions],
                             !.passed = options, !.execs = @ + 1]]
    /\ posts' = [posts EXCEPT ![c] =
                   [state |-> "pending", body |-> <<>>, headers |-> WebhookHeaders(webhookOptions)]]
    /\ UNCHANGED <<now, ticks, cache, logged, walkVars, restVars>>

\* a variant that awaits the promise fetch returned before returning
webhookAfterQueryAwaitsFetch(c) ==
    /\ calls[c].kind = "webhook" /\ calls[c].pc = "awaitHookQuery"
    /\ \E ok \in BOOLEAN :
         IF ok
         THEN /\ posts' = [posts EXCEPT ![c] =
                             [state |-> "pending",
                              body |-> WebhookBody(queryBuilder(calls[c].passed, c), calls[c].options,
                                                   calls[c].config.webhookOptions, now),
                              headers |-> WebhookHeaders(calls[c].config.webhookOptions)]]
              /\ calls' = [calls EXCEPT ![c] = [@ EXCEPT !.pc = "awaitFetch"]]
         ELSE /\ posts' = posts
              /\ calls' = [calls EXCEPT ![c] =
                             [@ EXCEPT !.pc = "rejected", !.error = "UpstreamExecutionFailure"]]
    /\ UNCHANGED <<now, ticks, cache, logged, walkVars, restVars>>

\* queryWithWebhook up to `await queryBuilder(options)`
queryWithWebhook(c, options, webhookUrl, webhookOptions) ==
    /\ calls[c].pc = "idle"
    /\ calls' = [calls EXCEPT ![c] =
                   [@ EXCEPT !.kind = "webhook", !.pc = "awaitHookQuery",
                             !.options = options,
                             !.config = [webhookUrl |-> webhookUrl, webhookOptions |-> webhookOptions],
                             !.passed = options, !.execs = @ + 1]]
    /\ UNCHANGED <<now, ticks, cache, hookVars, walkVars, restVars>>

\* after the await: a failed query rejects the call; otherwise the body is
\* serialized, fetch is called with a catch handler attached, and the result
\* is returned without awaiting the POST.  An exception thrown while the
\* request is built is thrown by the function itself.
webhookAfterQuery(c) ==
    /\ calls[c].kind = "webhook" /\ calls[c].pc = "awaitHookQuery"
    /\ \E ok \in BOOLEAN :
         IF ok
         THEN LET result == queryBuilder(calls[c].passed, c)
                  opts == calls[c].config.webhookOptions
                  body == WebhookBody(result, calls[c].options, opts, now)
              IN IF Serializable(body.data)
                 THEN /\ posts' = [posts EXCEPT ![c] =
                                     [state |-> "pending", body |-> body,
                                      headers |-> WebhookHeaders(opts)]]
                      /\ calls' = [calls EXCEPT ![c] =
                                     [@ EXCEPT !.pc = "resolved", !.result = result]]
                 ELSE /\ posts' = posts
                      /\ calls' = [calls EXCEPT ![c] =
                                     [@ EXCEPT !.pc = "rejected", !.error = "TypeError"]]
         ELSE /\ posts' = posts
              /\ calls' = [calls EXCEPT ![c] =
                             [@ EXCEPT !.pc = "rejected", !.error = "UpstreamExecutionFailure"]]
    /\ UNCHANGED <<now, ticks, cache, logged, walkVars, restVars>>

\* the promise fetch returned settles: a rejection runs the catch handler,
\* which logs it
fetchSettles(c) ==
    /\ posts[c].state = "pending"
    /\ \E ok \in BOOLEAN :
         IF ok
         THEN /\ posts' = [posts EXCEPT ![c].state = "delivered"]
              /\ logged' = logged
         ELSE /\ posts' = [posts EXCEPT ![c].state = "failed"]
              /\ logged' = Append(logged, "Webhook error:")
    /\ UNCHANGED <<calls, now, ticks, cache, walkVars, restVars>>

-----------------------------------------------------------------------------
(* 5. Batch operations *)

\* a variant of the reduce that keeps the first response stored under a name
BatchReduceFirstWins(results, n) ==
    LET Keep[k \in 0..n] ==
          IF k = 0 THEN EmptyObject
          ELSE Spread(Obj(results[k].name, results[k].result), Keep[k - 1])
    IN Keep[n]

\* results.reduce((acc, {name, result}) => { acc[name] = result; return acc }, {})
\* over the first n results
BatchReduce(results, n) ==
    LET Acc[k \in 0..n] ==
          IF k = 0 THEN EmptyObject
          ELSE Spread(Acc[k - 1], Obj(results[k].name, results[k].result))
    IN Acc[n]

\* the promise Promise.all returned, after execution i settled with `ok`
\* while the executions `inner` were in the given states
PromiseAllWaitsForAll(joined, inner, i, ok) ==
    LET after == [inner EXCEPT ![i] = IF ok THEN "ok" ELSE "failed"]
    IN IF joined # "pending" THEN joined
       ELSE IF \E j \in DOMAIN after : after[j] = "running" THEN "pending"
       ELSE IF \E j \in DOMAIN after : after[j] = "failed" THEN "rejected"
       ELSE "fulfilled"

PromiseAll(joined, inner, i, ok) ==
    IF joined # "pending" THEN joined
    ELSE IF ~ok THEN "rejected"
    ELSE IF \A j \in DOMAIN inner : j # i => inner[j] = "ok" THEN "fulfilled"
    ELSE "pending"

\* batchQueryBuilder up to `await Promise.all(...)`: queries.map runs every
\* async callback up to its own `await queryBuilder(options)`, so every
\* execution has been started when the call suspends
batchQueryBuilder(queries) ==
    /\ batch.pc = "idle"
    /\ batch' = [batch EXCEPT !.pc = "awaitAll", !.queries = queries,
                              !.inner = [i \in DOMAIN queries |-> "running"],
                              !.joined = IF queries = <<>> THEN "fulfilled" ELSE "pending"]
    /\ UNCHANGED <<calls, now, ticks, cache, hookVars, walkVars, presetVars, monitorVars, csv, eval>>

\* execution i settles; Promise.all rejects with the first rejection and is
\* fulfilled by the last fulfilment
batchQuerySettles(i) ==
    /\ batch.pc # "idle"
    /\ i \in DOMAIN batch.inner /\ batch.inner[i] = "running"
    /\ \E ok \in BOOLEAN :
         batch' = [batch EXCEPT
                     !.inner[i] = IF ok THEN "ok" ELSE "failed",
                     !.joined = PromiseAll(batch.joined, batch.inner, i, ok),
                     !.reason = IF batch.joined = "pending"
                                   /\ PromiseAll(batch.joined, batch.inner, i, ok) = "rejected"
                                THEN i ELSE @]
    /\ UNCHANGED <<calls, now, ticks, cache, hookVars, walkVars, presetVars, monitorVars, csv, eval>>

\* after the await: the reduce over the results in list order, or the
\* rejection of Promise.all thrown on
batchAfterAll ==
    /\ batch.pc = "awaitAll" /\ batch.joined # "pending"
    /\ batch' = IF batch.joined = "fulfilled"
                THEN [batch EXCEPT
                        !.pc = "resolved",
                        !.result = BatchReduce(
                            [i \in DOMAIN batch.queries |->
                                [name |-> batch.queries[i].name,
                                 result |-> queryBuilder(batch.queries[i].options, i)]],
                            Len(batch.queries))]
                ELSE [batch EXCEPT !.pc = "rejected", !.error = batch.reason]
    /\ UNCHANGED <<calls, now, ticks, cache, hookVars, walkVars, presetVars, monitorVars, csv, eval>>

-----------------------------------------------------------------------------
(* 9. Advanced aggregation helpers *)

\* {by: groupBy, ...aggregations, where: filters, having} with
\* `aggregations = {}` as the default
GroupByArgs(options) ==
    Spread(Spread(Obj("by", options.groupBy),
                  IF "aggregations" \in DOMAIN options THEN options.aggregations ELSE EmptyObject),
           [where |-> Get(options, "filters"), having |-> Get(options, "having")])

\* groupByQuery: model.groupBy(args) is called and its promise returned
groupByQuery(c, options) ==
    /\ calls[c].pc = "idle"
    /\ calls' = [calls EXCEPT ![c] =
                   [@ EXCEPT !.kind = "groupBy", !.pc = "awaitGroupBy",
                             !.options = options, !.passed = GroupByArgs(options),
                             !.execs = @ + 1]]
    /\ UNCHANGED <<now, ticks, cache, hookVars, walkVars, restVars>>

\* the executor's group-by settles; its rows are a function of the
\* arguments it was given
groupBySettles(c) ==
    /\ calls[c].kind = "groupBy" /\ calls[c].pc = "awaitGroupBy"
    /\ \E ok \in BOOLEAN :
         calls' = [calls EXCEPT ![c] =
                     IF ok THEN [@ EXCEPT !.pc = "resolved", !.result = [groupsOf |-> calls[c].passed]]
                     ELSE [@ EXCEPT !.pc = "rejected", !.error = "UpstreamExecutionFailure"]]
    /\ UNCHANGED <<now, ticks, cache, hookVars, walkVars, restVars>>

-----------------------------------------------------------------------------
(* The scoping decorators (soft delete, tenant) under every request of a    *)
(* bounded set.  They share no state, so one invocation at a time is taken. *)

\* the objects whose keys are a subset of DOMAIN choices, each key bound to
\* one of its choices
Objects(choices) ==
    UNION {[K -> UNION {choices[k] : k \in K}] : K \in SUBSET (DOMAIN choices)}

WellFormed(o, choices) == \A k \in DOMAIN o : o[k] \in choices[k]

UserFilters ==
    {f \in Objects([tenantId |-> {"t1", "t2", Undefined}, orgId |-> {"o1"},
                    deletedAt |-> {"d1", NotNull}]) :
        WellFormed(f, [tenantId |-> {"t1", "t2", Undefined}, orgId |-> {"o1"},
                       deletedAt |-> {"d1", NotNull}])}

UserOptions ==
    {[model |-> "user"]} \cup {[model |-> "user", filters |-> f] : f \in UserFilters}

TenantConfigs ==
    {t \in Objects([tenantId |-> {"t1", "t2"}, tenantField |-> {"tenantId", "orgId"}]) :
        WellFormed(t, [tenantId |-> {"t1", "t2"}, tenantField |-> {"tenantId", "orgId"}])}

SoftDeleteConfigs ==
    {d \in Objects([includeTrashed |-> {JsTrue, JsFalse}, trashedOnly |-> {JsTrue, JsFalse},
                    deletedAtField |-> {"deletedAt", "removedAt"}]) :
        WellFormed(d, [includeTrashed |-> {JsTrue, JsFalse}, trashedOnly |-> {JsTrue, JsFalse},
                       deletedAtField |-> {"deletedAt", "removedAt"}])}

\* no POST initiated
NoPost == [state |-> "none", body |-> EmptyObject, headers |-> EmptyObject]

\* no walk under way
IdleWalk == [pc |-> "idle"]

\* no preset operation called
NoOutcome == [op |-> "none", name |-> "", threw |-> FALSE, value |-> EmptyObject]

\* no conversion made
NoCsv == [pc |-> "idle"]

\* no helper function applied
NoEval == [pc |-> "idle"]

\* no batchQueryBuilder call made
IdleBatch ==
    [pc |-> "idle", queries |-> <<>>, inner |-> <<>>, joined |-> "pending", reason |-> 0,
     result |-> EmptyObject, error |-> 0]

\* the module state the cache, webhook and cursor scenarios leave alone
RestInit ==
    /\ batch = IdleBatch
    /\ presets = EmptyObject
    /\ history = <<>>
    /\ outcome = NoOutcome
    /\ metricsCallback = Null
    /\ observed = <<>>
    /\ csv = NoCsv
    /\ eval = NoEval

Init ==
    /\ calls = [c \in CallIds |-> IdleCall]
    /\ now = 0
    /\ ticks = 0
    /\ cache = EmptyObject
    /\ posts = [c \in CallIds |-> NoPost]
    /\ logged = <<>>
    /\ table = <<>>
    /\ walk = IdleWalk
    /\ RestInit

ScopeNext ==
    \/ \E options \in UserOptions, cfg \in TenantConfigs : tenantQueryBuilder(1, options, cfg)
    \/ \E options \in UserOptions, cfg \in SoftDeleteConfigs :
         \/ softDeleteQueryBuilder(1, options, <<cfg>>)
         \/ softDeleteQueryBuilder(1, options, <<>>)
    \/ ReturnQuery(1)

SpecScope == Init /\ [][ScopeNext]_vars

-----------------------------------------------------------------------------
(* Claims about the scoping decorators (checked under SpecScope) *)

TenantFieldOf(cfg) == IF "tenantField" \in DOMAIN cfg THEN cfg.tenantField ELSE "tenantId"

\* C2: a tenantQueryBuilder call whose tenantConfig has no tenantId fails
\* with an InvalidArgument error (and therefore never reaches the executor).
C2_OmittedTenantIdRejected ==
    \A c \in CallIds :
        (calls[c].kind = "tenant" /\ "tenantId" \notin DOMAIN calls[c].config)
            => /\ calls[c].pc = "rejected"
               /\ calls[c].error = "InvalidArgument"
               /\ calls[c].execs = 0

\* C3: for every options object and every configured tenantId, the filters
\* handed to the base query bind tenantField (default "tenantId") to exactly
\* that tenantId, also when options.filters has its own entry for the field,
\* and every row of the response has tenantField equal to tenantId.
C3_TenantIsolation ==
    \A c \in CallIds :
        (calls[c].kind = "tenant" /\ "tenantId" \in DOMAIN calls[c].config)
            => LET field == TenantFieldOf(calls[c].config)
                   tenantId == calls[c].config.tenantId
                   data == calls[c].result.data
               IN /\ "filters" \in DOMAIN calls[c].passed
                  /\ field \in DOMAIN calls[c].passed.filters
                  /\ calls[c].passed.filters[field] = tenantId
                  /\ calls[c].pc = "resolved"
                        => \A i \in DOMAIN data : data[i][field] = tenantId

\* a resolved tenant call whose caller filters named another tenant in
\* tenantField, and which returned rows
C3_Witness ==
    \E c \in CallIds :
        /\ calls[c].kind = "tenant" /\ calls[c].pc = "resolved"
        /\ "tenantId" \in DOMAIN calls[c].config
        /\ LET field == TenantFieldOf(calls[c].config)
               given == FiltersOf(calls[c].options)
           IN /\ field \in DOMAIN given
              /\ given[field] \notin {Undefined, calls[c].config.tenantId}
        /\ Len(calls[c].result.data) > 0

DeletedAtFieldOf(cfg) == IF "deletedAtField" \in DOMAIN cfg THEN cfg.deletedAtField ELSE "deletedAt"
Flag(cfg, k) == k \in DOMAIN cfg /\ cfg[k] = JsTrue
Cells == {Null, "d1", "d2"}

\* C8: includeTrashed adds no filter (also with trashedOnly set); otherwise
\* trashedOnly adds one condition, on deletedAtField (default "deletedAt"),
\* met exactly by the non-null cells; otherwise one condition on that field
\* met exactly by the null cell.
C8_SoftDeleteFilterSelection ==
    \A c \in CallIds :
        calls[c].kind = "softDelete"
            => LET cfg == calls[c].config
                   field == DeletedAtFieldOf(cfg)
                   added == calls[c].filter
               IN IF Flag(cfg, "includeTrashed") THEN DOMAIN added = {}
                  ELSE /\ DOMAIN added = {field}
                       /\ \A cell \in Cells :
                            Matches(added[field], cell) <=>
                                IF Flag(cfg, "trashedOnly") THEN cell # Null ELSE cell = Null

\* a call with both flags set, to which no filter was added
C8_Witness ==
    \E c \in CallIds :
        /\ calls[c].kind = "softDelete"
        /\ Flag(calls[c].config, "includeTrashed")
        /\ Flag(calls[c].config, "trashedOnly")
        /\ calls[c].filter = EmptyObject
        /\ "filters" \in DOMAIN calls[c].options

\* C9: every filter the caller supplied still constrains the executed query
\* together with the soft-delete condition: each returned row meets every
\* caller condition (also one on deletedAtField) and the added condition.
C9_CallerFiltersKept ==
    \A c \in CallIds :
        (calls[c].kind = "softDelete" /\ calls[c].pc = "resolved")
            => \A i \in DOMAIN calls[c].result.data :
                 /\ RowMatches(calls[c].result.data[i], buildFilters(FiltersOf(calls[c].options)))
                 /\ RowMatches(calls[c].result.data[i], buildFilters(calls[c].filter))

-----------------------------------------------------------------------------
(* The cache decorator: up to MaxCalls invocations, possibly concurrent,    *)
(* over one shared store and a clock.                                       *)

CacheOptions == {[model |-> "user"], [model |-> "user", filters |-> [tenantId |-> "t1"]]}

CacheConfigs ==
    {<<>>,
     <<[key |-> "k1"]>>,
     <<[key |-> "k1", ttl |-> 1]>>,
     <<[key |-> "k1", enabled |-> JsFalse]>>}

\* invocations are numbered in the order they are made
NextToCall(c) == IF c = 1 THEN TRUE ELSE calls[c - 1].pc # "idle"

CacheNext ==
    \/ \E c \in CallIds, options \in CacheOptions, cfg \in CacheConfigs :
         NextToCall(c) /\ cachedQueryBuilder(c, options, cfg)
    \/ \E c \in CallIds : cachedAfterGet(c)
    \/ \E c \in CallIds : cachedAfterQuery(c)
    \/ \E c \in CallIds : cachedAfterSet(c)
    \/ \E c \in CallIds : ReturnQuery(c)
    \/ \E d \in {1, DEFAULT_TTL} : Tick(d)

Spec == Init /\ [][CacheNext]_vars

-----------------------------------------------------------------------------
(* Claims about the cache decorator (checked under Spec) *)

\* caching is enabled and a key is given
ThroughCache(cfg) ==
    /\ "key" \in DOMAIN cfg /\ cfg.key # ""
    /\ "enabled" \in DOMAIN cfg => cfg.enabled = JsTrue

IsCached(c) == calls[c].kind = "cached" /\ ThroughCache(calls[c].config)

\* call c is made in this step
Invoked(c) == calls[c].pc = "idle" /\ calls'[c].kind = "cached"

\* call c hands its result to cacheStore.set in this step
Wrote(c) == calls[c].pc = "awaitExec" /\ calls'[c].pc = "awaitSet"

\* C4: a call made with key k while the store holds, under k, a response
\* whose ttl has not elapsed reads exactly that response, never invokes the
\* executor and resolves with it, whatever options it carries.
C4_CacheHit ==
    /\ [][\A c \in CallIds :
            (/\ Invoked(c) /\ ThroughCache(calls'[c].config)
             /\ calls'[c].config.key \in DOMAIN cache
             /\ now < cache[calls'[c].config.key].expiry)
                => /\ calls'[c].cached = cache[calls'[c].config.key].value
                   /\ calls'[c].cached # NoResponse
                   /\ cache' = cache]_vars
    /\ [](\A c \in CallIds :
            (IsCached(c) /\ calls[c].cached # NoResponse)
                => /\ calls[c].execs = 0
                   /\ calls[c].pc \in {"awaitGet", "resolved"}
                   /\ calls[c].pc = "resolved" => calls[c].result = calls[c].cached)

\* a call resolved, without executing, with the response an earlier call with
\* other options had stored
C4_Witness ==
    \E c \in CallIds :
        /\ IsCached(c) /\ calls[c].pc = "resolved" /\ calls[c].held = "fresh"
        /\ calls[c].execs = 0
        /\ calls[c].result.ref \in CallIds \ {c}
        /\ calls[calls[c].result.ref].options # calls[c].options

\* C5: a call made with key k after the ttl of k's entry has elapsed reads no
\* value and the read removes the entry; a call that read no value invokes
\* the executor; and the response of that execution is stored with
\* expiry = now + ttl, ttl being 5 minutes when not given.
C5_CacheExpiry ==
    /\ [][\A c \in CallIds :
            (/\ Invoked(c) /\ ThroughCache(calls'[c].config)
             /\ calls'[c].config.key \in DOMAIN cache
             /\ now > cache[calls'[c].config.key].expiry)
                => /\ calls'[c].cached = NoResponse
                   /\ calls'[c].config.key \notin DOMAIN cache']_vars
    /\ [][\A c \in CallIds :
            (IsCached(c) /\ calls[c].pc = "awaitGet" /\ calls[c].cached = NoResponse
             /\ calls'[c] # calls[c])
                => calls'[c].pc = "awaitExec" /\ calls'[c].execs = 1]_vars
    /\ [][\A c \in CallIds :
            (IsCached(c) /\ calls[c].pc = "awaitExec" /\ calls'[c].pc # "rejected"
             /\ calls'[c] # calls[c])
                => LET cfg == calls[c].config
                   IN /\ cfg.key \in DOMAIN cache'
                      /\ cache'[cfg.key].value = calls'[c].result
                      /\ calls'[c].result.ref = c
                      /\ cache'[cfg.key].expiry =
                            now + (IF "ttl" \in DOMAIN cfg THEN cfg.ttl ELSE 5 * 60 * 1000)]_vars

\* a call that found an expired entry has resolved with its own execution's
\* response, stored under the default ttl
C5_Witness ==
    \E c \in CallIds :
        /\ IsCached(c) /\ calls[c].held = "expired" /\ calls[c].pc = "resolved"
        /\ calls[c].result.ref = c /\ calls[c].execs = 1
        /\ "ttl" \notin DOMAIN calls[c].config
        /\ calls[c].config.key \in DOMAIN cache
        /\ cache[calls[c].config.key].value = calls[c].result

\* C6: with enabled false or no key, every step of the call leaves the store
\* as it was, the call never reads or writes the store, and it invokes the
\* executor (once, with its own options) and settles as that execution does.
C6_BypassLeavesCache ==
    [][\A c \in CallIds :
         (calls'[c] # calls[c] /\ calls'[c].kind = "cached" /\ ~ThroughCache(calls'[c].config))
            => /\ cache' = cache
               /\ calls'[c].reads = 0 /\ calls'[c].writes = 0
               /\ calls'[c].execs = 1 /\ calls'[c].passed = calls'[c].options
               /\ calls'[c].pc = "resolved" => calls'[c].result.ref = c]_vars

\* a call with enabled false resolved with its own execution's response while
\* an unexpired entry was stored under its key
C6_Witness ==
    \E c \in CallIds :
        /\ calls[c].kind = "cached" /\ calls[c].pc = "resolved"
        /\ "enabled" \in DOMAIN calls[c].config /\ calls[c].config.enabled = JsFalse
        /\ calls[c].held = "fresh"
        /\ calls[c].result.ref = c

\* C7: a call that read no value resolves with the response of its own
\* execution; a write leaves the written response in the store (the last
\* write wins); and only a write puts a value in the store.
C7_ConcurrentMisses ==
    /\ [](\A c \in CallIds :
            (IsCached(c) /\ calls[c].cached = NoResponse /\ calls[c].pc \in {"awaitSet", "resolved"})
                => /\ calls[c].result.ref = c
                   /\ calls[c].result = queryBuilder(calls[c].options, c))
    /\ [][\A c \in CallIds :
            Wrote(c) => cache'[calls[c].config.key].value = calls'[c].result]_vars
    /\ [][\A k \in DOMAIN cache' :
            (k \notin DOMAIN cache \/ cache'[k] # cache[k])
                => \E c \in CallIds : Wrote(c) /\ calls[c].config.key = k]_vars

\* two calls with the same key both read an empty store, both executed, both
\* wrote and each resolved with its own response; the store holds the response
\* of the call that was made first, which wrote last
C7_Witness ==
    \E c, d \in CallIds :
        /\ c < d /\ IsCached(c) /\ IsCached(d)
        /\ calls[c].config.key = calls[d].config.key
        /\ calls[c].held = "none" /\ calls[d].held = "none"
        /\ calls[c].cached = NoResponse /\ calls[d].cached = NoResponse
        /\ calls[c].pc = "resolved" /\ calls[d].pc = "resolved"
        /\ calls[c].writes = 1 /\ calls[d].writes = 1
        /\ calls[c].result.ref = c /\ calls[d].result.ref = d
        /\ cache[calls[c].config.key].value.ref = c

\* C29: the step in which a call's execution fails leaves the store exactly
\* as it was and rejects the call, which has written nothing; as long as no
\* call has written under a key the store holds nothing under it; and a call
\* that then reads the key gets no value and invokes the executor.
C29_FailureNotCached ==
    /\ [][\A c \in CallIds :
            (IsCached(c) /\ calls[c].pc = "awaitExec" /\ calls'[c].pc = "rejected")
                => /\ cache' = cache
                   /\ calls'[c].writes = 0
                   /\ calls'[c].error = "UpstreamExecutionFailure"]_vars
    /\ [](\A c \in CallIds :
            (IsCached(c) /\ calls[c].pc = "rejected") => calls[c].writes = 0)
    /\ [](\A c \in CallIds :
            (IsCached(c) /\ \A d \in CallIds :
                              (IsCached(d) /\ calls[d].config.key = calls[c].config.key)
                                  => calls[d].writes = 0)
                => calls[c].config.key \notin DOMAIN cache)
    /\ [][\A d \in CallIds :
            (/\ Invoked(d) /\ ThroughCache(calls'[d].config)
             /\ calls'[d].config.key \notin DOMAIN cache)
                => calls'[d].cached = NoResponse /\ calls'[d].pc = "awaitGet"]_vars

\* a call failed on a miss, and the next call with the same key, made after
\* the failure, found nothing stored and resolved with its own execution
C29_Witness ==
    \E c, d \in CallIds :
        /\ c < d /\ IsCached(c) /\ IsCached(d)
        /\ calls[c].config.key = calls[d].config.key
        /\ calls[c].pc = "rejected" /\ calls[c].execs = 1
        /\ calls[d].held = "none" /\ calls[d].cached = NoResponse
        /\ calls[d].pc = "resolved" /\ calls[d].execs = 1 /\ calls[d].result.ref = d

-----------------------------------------------------------------------------
(* The webhook decorator: up to MaxCalls invocations and their POSTs *)

HookOptions ==
    {[model |-> "user"], [model |-> "order"],
     [model |-> "order", filters |-> [status |-> "PAID"]]}

HookConfigs ==
    {<<>>, <<[includeQuery |-> JsTrue]>>, <<[headers |-> [Authorization |-> "secret"]]>>}

WebhookNext ==
    \/ \E c \in CallIds, options \in HookOptions, cfg \in HookConfigs :
         NextToCall(c) /\ queryWithWebhook(c, options, "https://example.invalid/webhook", cfg)
    \/ \E c \in CallIds : webhookAfterQuery(c)
    \/ \E c \in CallIds : fetchSettles(c)

SpecWebhook == Init /\ [][WebhookNext]_vars

\* C10: the outcome of queryWithWebhook never depends on the webhook: a call
\* whose base query succeeded resolves with exactly that query's data and
\* meta (so a call is rejected only by its base query's failure), whether the
\* POST is delivered, fails or cannot be sent.
C10_WebhookNeverAffectsOutcome ==
    \A c \in CallIds :
        calls[c].kind = "webhook"
            => /\ calls[c].pc = "rejected" => calls[c].error = "UpstreamExecutionFailure"
               /\ calls[c].pc = "resolved"
                    => /\ calls[c].result.data = queryBuilder(calls[c].options, c).data
                       /\ calls[c].result.meta = queryBuilder(calls[c].options, c).meta

\* C11: a POST is initiated only by the step in which the call's base query
\* has completed successfully, and never a second time for the same call; a
\* call whose base query failed has no POST and is rejected with the
\* executor's failure.
C11_WebhookOrdering ==
    /\ [][\A c \in CallIds :
            /\ posts'[c].state = "pending" /\ posts[c].state # "pending"
                 => /\ posts[c].state = "none"
                    /\ calls[c].kind = "webhook" /\ calls[c].pc = "awaitHookQuery"
                    /\ calls'[c].pc = "resolved"
                    /\ posts'[c].body.data = queryBuilder(calls[c].options, c).data
            /\ posts[c].state # "none" => posts'[c].state # "none"
            /\ posts[c].state \in {"delivered", "failed"} => posts'[c] = posts[c]]_vars
    /\ [](\A c \in CallIds :
            /\ posts[c].state # "none" => calls[c].execs = 1
            /\ calls[c].pc = "awaitHookQuery" => posts[c].state = "none"
            /\ calls[c].pc = "rejected" /\ calls[c].error = "UpstreamExecutionFailure"
                 => posts[c].state = "none")

\* one call rejected by its base query with no POST, another resolved with
\* its POST delivered
C11_Witness ==
    \E c, d \in CallIds :
        /\ calls[c].kind = "webhook" /\ calls[c].pc = "rejected"
        /\ calls[c].error = "UpstreamExecutionFailure" /\ posts[c].state = "none"
        /\ calls[d].kind = "webhook" /\ calls[d].pc = "resolved"
        /\ posts[d].state = "delivered"

\* the continuation of an awaited query always runs; nothing obliges a POST
\* to settle
SpecWebhookLive ==
    Init /\ [][WebhookNext]_vars /\ \A c \in CallIds : WF_vars(webhookAfterQuery(c))

\* C12: the POST never holds the call back: whenever a POST is in flight its
\* call has already resolved with the base result, and every call settles
\* once its base query has, even in runs where no POST ever completes.
C12_WebhookDoesNotBlock ==
    /\ [](\A c \in CallIds :
            posts[c].state = "pending"
                => /\ calls[c].pc = "resolved"
                   /\ calls[c].result.data = queryBuilder(calls[c].options, c).data
                   /\ calls[c].result.meta = queryBuilder(calls[c].options, c).meta)
    /\ \A c \in CallIds : (calls[c].pc = "awaitHookQuery") ~> Settled(c)

\* every call has resolved while every POST is still in flight
C12_Witness ==
    \A c \in CallIds :
        /\ calls[c].kind = "webhook" /\ calls[c].pc = "resolved"
        /\ posts[c].state = "pending"

-----------------------------------------------------------------------------
(* The batch decorator: one invocation over every list of up to MaxBatch     *)
(* named requests; names may repeat.                                         *)

BatchOptions == {[model |-> "user"], [model |-> "order"]}

BatchQueries ==
    UNION {[1..n -> [name : {"a", "b"}, options : BatchOptions]] : n \in 0..MaxBatch}

BatchNext ==
    \/ \E queries \in BatchQueries : batchQueryBuilder(queries)
    \/ \E i \in 1..MaxBatch : batchQuerySettles(i)
    \/ batchAfterAll

SpecBatch == Init /\ [][BatchNext]_vars

\* the continuation of the awaited Promise.all always runs; nothing obliges
\* an execution to settle
SpecBatchLive == Init /\ [][BatchNext]_vars /\ WF_vars(batchAfterAll)

\* C13: every execution is started by the call itself, before any has
\* settled, and the executions settle in any order; when all succeed the
\* mapping's keys are exactly the names of the list and each name holds the
\* full response of the request that carries it (of the last such request
\* when a name is repeated), whatever the order of completion; an empty
\* list yields an empty mapping.
C13_BatchMapping ==
    /\ [][batch.pc = "idle" /\ batch'.pc # "idle"
            => /\ DOMAIN batch'.inner = DOMAIN batch'.queries
               /\ \A i \in DOMAIN batch'.inner : batch'.inner[i] = "running"]_vars
    /\ [](batch.pc = "resolved"
            => /\ \A i \in DOMAIN batch.inner : batch.inner[i] = "ok"
               /\ DOMAIN batch.result = {batch.queries[i].name : i \in DOMAIN batch.queries}
               /\ \A i \in DOMAIN batch.queries :
                    (\A j \in DOMAIN batch.queries :
                        j > i => batch.queries[j].name # batch.queries[i].name)
                        => batch.result[batch.queries[i].name]
                             = queryBuilder(batch.queries[i].options, i)
               /\ batch.queries = <<>> => batch.result = EmptyObject)
    /\ [](batch.queries = <<>> => batch.pc # "rejected")

\* two different requests under distinct names, and the mapping holds both
C13_Witness ==
    /\ batch.pc = "resolved"
    /\ Len(batch.queries) = 2
    /\ batch.queries[1].name = "b" /\ batch.queries[2].name = "a"
    /\ batch.queries[1].options # batch.queries[2].options
    /\ DOMAIN batch.result = {"a", "b"}

\* C14: the first failure of an execution rejects the join at once, whatever
\* the other executions are doing, and the batch then fails with that
\* failure and returns no mapping, even in runs where the other executions
\* never settle; a batch with a failed execution never resolves.
C14_BatchAllOrNone ==
    /\ [][/\ \A i \in DOMAIN batch.inner :
               batch.inner[i] = "running" /\ batch'.inner[i] = "failed" /\ batch.joined = "pending"
                   => batch'.joined = "rejected" /\ batch'.reason = i
          /\ batch.joined = "rejected"
               => batch'.joined = "rejected" /\ batch'.reason = batch.reason]_vars
    /\ [](/\ batch.pc = "rejected"
               => /\ batch.result = EmptyObject
                  /\ batch.error = batch.reason
                  /\ batch.error \in DOMAIN batch.inner /\ batch.inner[batch.error] = "failed"
          /\ (\E i \in DOMAIN batch.inner : batch.inner[i] = "failed") => batch.pc # "resolved")
    /\ (batch.joined = "rejected") ~> (batch.pc = "rejected")

\* the batch has failed with the second request's failure while the first is
\* still running
C14_Witness ==
    /\ batch.pc = "rejected"
    /\ Len(batch.queries) = 2
    /\ batch.error = 2
    /\ batch.inner[1] = "running"

-----------------------------------------------------------------------------
(* The preset registry under every sequence of up to MaxOps operations      *)

PresetNames == {"p", "q"}

PresetOptions ==
    {[model |-> "user"], [model |-> "order"],
     [model |-> "order", filters |-> [status |-> "PAID"], page |-> 2]}

PresetOverrides ==
    {<<>>, <<[page |-> 1]>>, <<[model |-> "user", filters |-> [tenantId |-> "t1"]]>>}

PresetNext ==
    \/ \E name \in PresetNames, options \in PresetOptions : saveQueryPreset(name, options)
    \/ \E name \in PresetNames : LoadQueryPreset(name)
    \/ \E name \in PresetNames : deletePreset(name)
    \/ listPresets
    \/ \E c \in CallIds, name \in PresetNames, overrides \in PresetOverrides :
         NextToCall(c) /\ executePreset(c, name, overrides)
    \/ \E c \in CallIds : ReturnQuery(c)

SpecPreset == Init /\ [][PresetNext]_vars

\* what the operations called so far leave stored under name: <<options>>
\* of the last save if no delete followed it, <<>> otherwise
LastSaved(name, n) ==
    LET writes == {i \in 1..n : history[i].name = name /\ history[i].op \in {"save", "delete"}}
    IN IF writes = {} THEN <<>>
       ELSE LET last == CHOOSE i \in writes : \A j \in writes : j <= i
            IN IF history[last].op = "save" THEN <<history[last].options>> ELSE <<>>

\* C15: a loadQueryPreset(name) that has just been called returned the
\* options of the most recent save under name when no delete of name
\* followed that save, and threw not-found otherwise, whatever saves,
\* deletes, lists, loads and executions came before.
C15_PresetRegistry ==
    (history # <<>> /\ history[Len(history)].op = "load")
        => /\ outcome.op = "load" /\ outcome.name = history[Len(history)].name
           /\ LET saved == LastSaved(outcome.name, Len(history))
              IN IF saved = <<>>
                 THEN outcome.threw /\ outcome.value = "Preset not found"
                 ELSE ~outcome.threw /\ outcome.value = saved[1]

\* a preset saved, saved again with other options, and loaded
C15_Witness ==
    /\ Len(history) = 3
    /\ history[1].op = "save" /\ history[2].op = "save" /\ history[3].op = "load"
    /\ history[1].name = "p" /\ history[2].name = "p" /\ history[3].name = "p"
    /\ history[1].options # history[2].options
    /\ ~outcome.threw /\ outcome.value = history[2].options

\* C16: executePreset(name, overrides) leaves the registry as it was; for a
\* stored name it invokes the executor once, with a request that has every
\* top-level key of the overrides at the overrides' value and every other
\* stored key at the stored value, and resolves with that request's
\* response; for an unknown name it is rejected with not-found and the
\* executor is not invoked.
C16_ExecutePreset ==
    /\ [][\A c \in CallIds :
            calls[c].pc = "idle" /\ calls'[c].kind = "preset"
                => LET name == calls'[c].config.name
                       over == OrEmpty(calls'[c].config.overrides)
                       saved == LastSaved(name, Len(history))
                       sent == calls'[c].passed
                   IN /\ presets' = presets
                      /\ IF saved = <<>>
                         THEN /\ calls'[c].pc = "rejected"
                              /\ calls'[c].error = "Preset not found"
                              /\ calls'[c].execs = 0
                         ELSE /\ calls'[c].pc = "awaitQuery"
                              /\ calls'[c].execs = 1
                              /\ DOMAIN sent = (DOMAIN saved[1]) \cup (DOMAIN over)
                              /\ \A k \in DOMAIN over : sent[k] = over[k]
                              /\ \A k \in (DOMAIN saved[1]) \ (DOMAIN over) : sent[k] = saved[1][k]]_vars
    /\ [](\A c \in CallIds :
            calls[c].kind = "preset"
                => /\ calls[c].execs <= 1
                   /\ calls[c].pc = "resolved" => calls[c].result = queryBuilder(calls[c].passed, c))

\* a stored request with filters and a page, executed with overrides that
\* replace its model and filters, has resolved; and an unknown name was
\* rejected
C16_Witness ==
    \E c, d \in CallIds :
        /\ calls[c].kind = "preset" /\ calls[c].pc = "resolved"
        /\ calls[c].options = [model |-> "order", filters |-> [status |-> "PAID"], page |-> 2]
        /\ calls[c].passed = [model |-> "user", filters |-> [tenantId |-> "t1"], page |-> 2]
        /\ calls[d].kind = "preset" /\ calls[d].pc = "rejected" /\ calls[d].execs = 0

-----------------------------------------------------------------------------
(* The monitoring decorator: two invocations, possibly concurrent, a clock,  *)
(* and up to MaxRegs registrations of observers                              *)

MonitorOptions == {[model |-> "user"], [model |-> "order", filters |-> [status |-> "PAID"]]}

Observers == {"a", "b", ThrowingObserver}

MonitorCalls == {1, 2}

MonitorNext ==
    \/ \E callback \in Observers : onQueryMetrics(callback)
    \/ \E c \in MonitorCalls, options \in MonitorOptions :
         NextToCall(c) /\ monitoredQueryBuilder(c, options)
    \/ \E c \in MonitorCalls : monitoredAfterQuery(c)
    \/ \E d \in {1, SLOW_QUERY_THRESHOLD} : Tick(d)

SpecMonitor == Init /\ [][MonitorNext]_vars

\* C17: what monitoredQueryBuilder returns is the base result (same data and
\* meta) with _metrics = {queryTime, resultCount, isSlow, timestamp}
\* attached, where queryTime is the time elapsed since the call, resultCount
\* the base total, and isSlow is true exactly when more than 1000 ms
\* elapsed; with no observer registered, or one that returns normally, a
\* call is rejected only by the failure of its base query.
C17_MetricsAttached ==
    /\ [][\A c \in CallIds :
            calls[c].pc = "awaitMonitoredQuery" /\ calls'[c].pc # "awaitMonitoredQuery"
                => /\ calls'[c].pc = "resolved"
                        => LET base == queryBuilder(calls[c].options, c)
                               got == calls'[c].result
                           IN /\ got.data = base.data /\ got.meta = base.meta
                              /\ DOMAIN got._metrics = {"queryTime", "resultCount", "isSlow", "timestamp"}
                              /\ got._metrics.queryTime = now - calls[c].config.start
                              /\ got._metrics.resultCount = base.meta.total
                              /\ got._metrics.isSlow = (now - calls[c].config.start > 1000)
                              /\ got._metrics.timestamp = now
                   /\ metricsCallback # ThrowingObserver /\ calls'[c].pc = "rejected"
                        => calls'[c].error = "UpstreamExecutionFailure"]_vars
    /\ [](\A c \in CallIds : calls[c].kind = "monitored" => calls[c].execs = 1)

\* with no observer registered: one call returned after exactly 1000 ms, not
\* slow, and another after 1001 ms, slow
C17_Witness ==
    /\ metricsCallback = Null /\ observed = <<>>
    /\ \E c, d \in CallIds :
         /\ calls[c].kind = "monitored" /\ calls[c].pc = "resolved"
         /\ calls[c].result._metrics.queryTime = 1000 /\ ~calls[c].result._metrics.isSlow
         /\ calls[d].kind = "monitored" /\ calls[d].pc = "resolved"
         /\ calls[d].result._metrics.queryTime = 1001 /\ calls[d].result._metrics.isSlow

\* the observer registered last before position n of `observed`, or Null
LastRegistered(n) ==
    LET regs == {i \in 1..n : observed[i].kind = "register"}
    IN IF regs = {} THEN Null
       ELSE observed[CHOOSE i \in regs : \A j \in regs : j <= i].observer

\* the invocations of observers made for call c
InvocationsFor(c) == {i \in DOMAIN observed : observed[i].kind = "invoke" /\ observed[i].call = c}

\* C18: every invocation of an observer is an invocation of the observer
\* registered last before it, with that execution's metrics and options; an
\* execution that completes successfully after a registration has invoked
\* that last-registered observer exactly once and no other observer, and one
\* that completes with nothing registered has invoked none.
C18_SingleObserverSlot ==
    /\ [](\A i \in DOMAIN observed :
            observed[i].kind = "invoke" => observed[i].observer = LastRegistered(i))
    /\ [](\A c \in CallIds : Cardinality(InvocationsFor(c)) <= 1)
    /\ [][\A c \in CallIds :
            calls[c].pc = "awaitMonitoredQuery" /\ calls'[c].pc = "resolved"
                => IF LastRegistered(Len(observed)) = Null
                   THEN observed' = observed
                   ELSE /\ Len(observed') = Len(observed) + 1
                        /\ observed'[Len(observed')].kind = "invoke"
                        /\ observed'[Len(observed')].call = c
                        /\ observed'[Len(observed')].observer = LastRegistered(Len(observed))
                        /\ observed'[Len(observed')].options = calls[c].options
                        /\ observed'[Len(observed')].metrics = calls'[c].result._metrics]_vars

\* a, then b were registered and two executions completed successfully: b
\* was invoked for each, a never
C18_Witness ==
    /\ Len(observed) = 4
    /\ observed[1].kind = "register" /\ observed[1].observer = "a"
    /\ observed[2].kind = "register" /\ observed[2].observer = "b"
    /\ observed[3].kind = "invoke" /\ observed[3].observer = "b"
    /\ observed[4].kind = "invoke" /\ observed[4].observer = "b"
    /\ \A c \in MonitorCalls : calls[c].pc = "resolved"

-----------------------------------------------------------------------------
(* The query-and-export functions over tables of 2, 4 and 101 rows.  They   *)
(* share no state, so one invocation at a time is taken.                    *)

ExportRequests ==
    {[model |-> "event"], [model |-> "event", limit |-> 5], [model |-> "user"],
     [model |-> "order", filters |-> [status |-> "PAID"]]}

ExportMaxRows == {<<>>, <<1>>, <<3>>, <<100>>, <<101>>}

ExportNext ==
    \/ \E format \in {"csv", "json"}, options \in ExportRequests, maxRows \in ExportMaxRows :
         queryAndExport(1, format, options, maxRows)
    \/ exportAfterQuery(1)

SpecExport == Init /\ [][ExportNext]_vars

\* the rows of the requested model that match the request's filters
MatchingRows(options) ==
    LET Hit(row) == \A k \in DOMAIN FiltersOf(options) : Matches(FiltersOf(options)[k], row[k])
    IN SelectSeq(Tables[options.model], Hit)

\* C19: the base query of an export runs with maxRows (default 10000) as its
\* limit whatever options.limit was, the plan's take equals maxRows, and the
\* export holds the first maxRows matching rows, all of them when fewer
\* match.
C19_ExportUsesMaxRows ==
    \A c \in CallIds :
        calls[c].kind = "export"
            => LET maxRows == IF calls[c].config.maxRows = <<>> THEN 10000
                              ELSE calls[c].config.maxRows[1]
                   matching == MatchingRows(calls[c].options)
               IN /\ calls[c].passed.limit = maxRows
                  /\ QueryPlan(calls[c].passed).take = maxRows
                  /\ calls[c].pc = "resolved"
                       => calls[c].result.rows
                            = SubSeq(matching, 1, IF Len(matching) < maxRows
                                                  THEN Len(matching) ELSE maxRows)

-----------------------------------------------------------------------------
(* toCSV over row sets of string cells of up to MaxLen characters, and a     *)
(* reader that splits the text by the rules of RFC 4180                      *)

Chars == {"a", Comma, Quote, LF, CR}

Strings == UNION {[1..n -> Chars] : n \in 0..MaxLen}

KeyH == <<"h">>
KeyK == <<"k">>

\* one column and one or two rows, or two columns and one row
CsvInputs ==
    {<< <<[key |-> KeyH, value |-> v]>> >> : v \in Strings}
    \cup {<< <<[key |-> KeyH, value |-> v]>>, <<[key |-> KeyH, value |-> w]>> >> :
             v \in Strings, w \in Strings}
    \cup {<< <<[key |-> KeyH, value |-> v], [key |-> KeyK, value |-> w]>> >> :
             v \in Strings, w \in Strings}

InitCsv ==
    /\ calls = [c \in CallIds |-> IdleCall]
    /\ now = 0
    /\ ticks = 0
    /\ cache = EmptyObject
    /\ posts = [c \in CallIds |-> NoPost]
    /\ logged = <<>>
    /\ table = <<>>
    /\ walk = IdleWalk
    /\ batch = IdleBatch
    /\ presets = EmptyObject
    /\ history = <<>>
    /\ outcome = NoOutcome
    /\ metricsCallback = Null
    /\ observed = <<>>
    /\ \E data \in CsvInputs : csv = [pc |-> "input", data |-> data]
    /\ eval = NoEval

\* RFC 4180: fields are separated by commas and records by line breaks; a
\* field in double quotes may hold commas, line breaks and doubled quotes;
\* the last record may or may not be followed by a line break, so a line
\* break at the very end of the text ends the last record and starts none.
\* `started` says whether the record being read has any text yet.
RECURSIVE ReadCsvFrom(_, _, _, _, _, _, _)
ReadCsvFrom(text, i, inQuotes, started, field, record, records) ==
    IF i > Len(text)
    THEN IF started THEN Append(records, Append(record, field)) ELSE records
    ELSE LET ch == text[i]
             next == IF i < Len(text) THEN <<text[i + 1]>> ELSE <<>>
         IN IF inQuotes
            THEN IF ch = Quote
                 THEN IF next = <<Quote>>
                      THEN ReadCsvFrom(text, i + 2, TRUE, TRUE, Append(field, Quote), record, records)
                      ELSE ReadCsvFrom(text, i + 1, FALSE, TRUE, field, record, records)
                 ELSE ReadCsvFrom(text, i + 1, TRUE, TRUE, Append(field, ch), record, records)
            ELSE IF ch = Quote
                 THEN ReadCsvFrom(text, i + 1, TRUE, TRUE, field, record, records)
            ELSE IF ch = Comma
                 THEN ReadCsvFrom(text, i + 1, FALSE, TRUE, <<>>, Append(record, field), records)
            ELSE IF ch = CR /\ next = <<LF>>
                 THEN ReadCsvFrom(text, i + 2, FALSE, FALSE, <<>>, <<>>,
                                  Append(records, Append(record, field)))
            ELSE IF ch \in {LF, CR}
                 THEN ReadCsvFrom(text, i + 1, FALSE, FALSE, <<>>, <<>>,
                                  Append(records, Append(record, field)))
            ELSE ReadCsvFrom(text, i + 1, FALSE, TRUE, Append(field, ch), record, records)

ReadCsv(text) == ReadCsvFrom(text, 1, FALSE, FALSE, <<>>, <<>>, <<>>)

\* toCSV(data) is called
csvConvert ==
    /\ csv.pc = "input"
    /\ csv' = [pc |-> "converted", data |-> csv.data, text |-> toCSV(csv.data)]
    /\ UNCHANGED <<calls, now, ticks, cache, hookVars, walkVars, batch, presetVars, monitorVars, eval>>

\* the text is read back
csvRead ==
    /\ csv.pc = "converted"
    /\ csv' = [pc |-> "read", data |-> csv.data, text |-> csv.text, records |-> ReadCsv(csv.text)]
    /\ UNCHANGED <<calls, now, ticks, cache, hookVars, walkVars, batch, presetVars, monitorVars, eval>>

CsvNext == csvConvert \/ csvRead

SpecCsv == InitCsv /\ [][CsvNext]_vars

\* the cells of row r of the input, in header order
CellsOf(data, r) == [h \in DOMAIN data[1] |-> data[r][h].value]

\* C20: reading toCSV's output by RFC 4180 rules gives the header record and
\* then one record per row, each with as many fields as the header and with
\* every cell's original string; and a cell is written in quotes exactly
\* when it holds a comma, a quote or a line break, its quotes doubled.
C20_CsvRoundTrip ==
    /\ csv.pc \in {"converted", "read"}
         => \A r \in DOMAIN csv.data : \A h \in DOMAIN csv.data[r] :
               LET raw == csv.data[r][h].value
                   out == escapeCsv(raw)
                   Quotes(str) == Cardinality({i \in DOMAIN str : str[i] = Quote})
               IN IF \E i \in DOMAIN raw : raw[i] \in {Comma, Quote, LF, CR}
                  THEN /\ Len(out) >= 2 /\ out[1] = Quote /\ out[Len(out)] = Quote
                       /\ Quotes(out) = 2 * Quotes(raw) + 2
                       /\ Len(out) = Len(raw) + Quotes(raw) + 2
                  ELSE out = raw
    /\ csv.pc = "read"
         => /\ Len(csv.records) = Len(csv.data) + 1
            /\ csv.records[1] = ObjectKeys(csv.data[1])
            /\ \A r \in DOMAIN csv.data :
                  /\ Len(csv.records[r + 1]) = Len(ObjectKeys(csv.data[1]))
                  /\ csv.records[r + 1] = CellsOf(csv.data, r)

\* C30: whichever observer is invoked, the throwing one included, the call
\* it is invoked for resolves with the base result and the metrics that were
\* reported to the observer.
C30_ObserverCannotLoseResult ==
    \A i \in DOMAIN observed :
        observed[i].kind = "invoke"
            => LET c == observed[i].call
               IN /\ calls[c].pc = "resolved"
                  /\ calls[c].result.data = queryBuilder(calls[c].options, c).data
                  /\ calls[c].result.meta = queryBuilder(calls[c].options, c).meta
                  /\ calls[c].result._metrics = observed[i].metrics

-----------------------------------------------------------------------------
(* groupByQuery under every request of a bounded set, one invocation at a    *)
(* time                                                                      *)

GroupByChoices ==
    [aggregations |-> {[_count |-> JsTrue], [_sum |-> [amount |-> JsTrue]]},
     filters |-> {EmptyObject, [status |-> "PAID"], [createdAt |-> RangeFromTo],
                  [status |-> ArrayAB]},
     having |-> {"{amount:{_sum:{gt:0}}}"}]

GroupByRequests ==
    {Spread([model |-> "order", groupBy |-> by], rest) :
        by \in {<<"status">>, <<"status", "id">>},
        rest \in {[k \in K |-> pick[k]] :
                     K \in SUBSET {"aggregations", "filters", "having"},
                     pick \in [aggregations : GroupByChoices.aggregations,
                               filters : GroupByChoices.filters,
                               having : GroupByChoices.having]}}

GroupByNext ==
    \/ \E options \in GroupByRequests : groupByQuery(1, options)
    \/ groupBySettles(1)

SpecGroupBy == Init /\ [][GroupByNext]_vars

\* C21: the executor's group-by receives the request's groupBy fields as
\* `by`, its aggregations, its having, and as `where` the compiled form of
\* its filters (a {from, to} range as lower and upper bound, an array as a
\* membership test), and no take, skip or orderBy.
C21_GroupByForwardsCompiledFilters ==
    \A c \in CallIds :
        calls[c].kind = "groupBy"
            => LET o == calls[c].options
                   args == calls[c].passed
               IN /\ args.by = o.groupBy
                  /\ "aggregations" \in DOMAIN o
                       => \A k \in DOMAIN o.aggregations : k \in DOMAIN args /\ args[k] = o.aggregations[k]
                  /\ args.having = Get(o, "having")
                  /\ DOMAIN args \cap {"take", "skip", "orderBy"} = {}
                  /\ IF "filters" \in DOMAIN o
                     THEN args.where = buildFilters(o.filters)
                     ELSE args.where = Undefined

-----------------------------------------------------------------------------
(* A client paging through an unchanging record set with cursorQueryBuilder: *)
(* first without a cursor, then with the previous response's nextCursor,     *)
(* until hasMore is false.                                                   *)

\* record i of the set: id and slug are unique, rank is not
Record(i) == [id |-> i, slug |-> (3 * i) % 7, rank |-> i % 2]

RecordSets == {[i \in 1..n |-> Record(i)] : n \in 2..MaxRows}

WalkArgs ==
    {a \in Objects([cursorField |-> {"id", "slug"}, sortBy |-> {"id", "slug", "rank"},
                    sortOrder |-> {"asc", "desc"}]) :
        WellFormed(a, [cursorField |-> {"id", "slug"}, sortBy |-> {"id", "slug", "rank"},
                       sortOrder |-> {"asc", "desc"}])}

InitCursor ==
    /\ calls = [c \in CallIds |-> IdleCall]
    /\ now = 0
    /\ ticks = 0
    /\ cache = EmptyObject
    /\ posts = [c \in CallIds |-> NoPost]
    /\ logged = <<>>
    /\ table \in RecordSets
    /\ \E limit \in 1..(MaxRows - 1), args \in WalkArgs :
         /\ limit < Len(table)
         /\ walk = [pc |-> "ready", args |-> args, limit |-> limit, cursor |-> <<>>,
                    pages |-> 0, collected |-> <<>>, hasMore |-> FALSE,
                    nextCursor |-> <<>>]
    /\ RestInit

\* the client calls cursorQueryBuilder with its current cursor
cursorQueryBuilder ==
    /\ walk.pc = "ready"
    /\ walk' = [walk EXCEPT !.pc = "calling", !.pages = @ + 1]
    /\ UNCHANGED <<calls, now, ticks, cache, hookVars, table, restVars>>

\* the call settles; the client keeps the rows and the meta of the response
\* and, if there are more, takes nextCursor as its next cursor
cursorReturn ==
    /\ walk.pc = "calling"
    /\ \E ok \in BOOLEAN :
         IF ok
         THEN LET res == cursorQueryBuilderResponse(table, walk.args, walk.limit, walk.cursor)
              IN walk' = [walk EXCEPT !.collected = @ \o res.data,
                                      !.hasMore = res.meta.hasMore,
                                      !.nextCursor = res.meta.nextCursor,
                                      !.cursor = IF res.meta.hasMore THEN res.meta.nextCursor ELSE @,
                                      !.pc = IF res.meta.hasMore THEN "ready" ELSE "done"]
         ELSE walk' = [walk EXCEPT !.pc = "failed"]
    /\ UNCHANGED <<calls, now, ticks, cache, hookVars, table, restVars>>

CursorNext == cursorQueryBuilder \/ cursorReturn

\* the client keeps calling and every call settles
SpecCursor == InitCursor /\ [][CursorNext]_vars /\ WF_vars(CursorNext)

\* the field the walk sorts by, and whether key x may come before key y
WalkSortField ==
    IF "sortBy" \in DOMAIN walk.args THEN walk.args.sortBy
    ELSE IF "cursorField" \in DOMAIN walk.args THEN walk.args.cursorField ELSE "id"
WalkAscending == "sortOrder" \in DOMAIN walk.args /\ walk.args.sortOrder = "asc"

\* C1: over an unchanging set of N records with unique cursorField values and
\* a limit k < N, the walk ends, and as long as no call fails: the records
\* collected are pairwise distinct and in sort order, every completed page
\* that is not the last holds exactly k records, and when hasMore is false
\* every one of the N records has been collected exactly once.
C1_CursorRoundTrip ==
    /\ [](walk.pc # "idle" =>
            LET got == walk.collected
                f == WalkSortField
            IN /\ \A i, j \in DOMAIN got : i < j =>
                    /\ got[i] # got[j]
                    /\ IF WalkAscending THEN got[i][f] <= got[j][f] ELSE got[i][f] >= got[j][f]
               /\ \A i \in DOMAIN got : \E n \in DOMAIN table : table[n] = got[i]
               /\ walk.pc = "ready" => Len(got) = walk.pages * walk.limit
               /\ walk.pc = "done" =>
                    /\ Len(got) = Len(table)
                    /\ \A n \in DOMAIN table : \E i \in DOMAIN got : got[i] = table[n]
                    /\ ~walk.hasMore)
    /\ <>(walk.pc \in {"done", "failed"})

\* a finished walk of two full pages over four records, sorted by a field
\* other than the cursor field
C1_Witness ==
    /\ walk.pc = "done"
    /\ Len(table) = 4 /\ Len(walk.collected) = 4
    /\ walk.limit = 2 /\ walk.pages = 2
    /\ walk.cursor # <<>>
    /\ "sortBy" \in DOMAIN walk.args /\ walk.args.sortBy = "rank"

\* the cursor field of the walk
WalkCursorField ==
    IF "cursorField" \in DOMAIN walk.args THEN walk.args.cursorField ELSE DEFAULT_CURSOR_FIELD

\* C24 as stated: after a successful call, meta.nextCursor is null when
\* hasMore is false and is the cursorField value of the last returned row
\* otherwise.
C24_NullCursorWithoutMore ==
    (walk.pc \in {"ready", "done"} /\ walk.pages > 0) =>
        IF walk.hasMore
        THEN walk.nextCursor = <<walk.collected[Len(walk.collected)][WalkCursorField]>>
        ELSE walk.nextCursor = <<>>

\* C24 (amended): after a successful call, meta.hasMore is true exactly when
\* records remain beyond the returned page, and meta.nextCursor is the
\* cursorField value of the last returned row whether or not hasMore is
\* true; it is null only when no row is returned.
C24_NextCursorIsLastRow ==
    (walk.pc \in {"ready", "done"} /\ walk.pages > 0) =>
        /\ walk.hasMore = (Len(walk.collected) < Len(table))
        /\ walk.nextCursor =
             IF walk.collected = <<>> THEN <<>>
             ELSE <<walk.collected[Len(walk.collected)][WalkCursorField]>>

\* the last page of a walk of two pages: hasMore is false and nextCursor is
\* the cursor field of the last record
C24_Witness ==
    /\ walk.pc = "done" /\ walk.pages = 2 /\ ~walk.hasMore
    /\ walk.nextCursor = <<walk.collected[Len(walk.collected)][WalkCursorField]>>

\* C25: the orderBy the executor is given is the single key (cursorField,
\* sortOrder) when sortBy is absent or equals cursorField, and otherwise
\* (sortBy, sortOrder) followed by (cursorField, sortOrder); under it no two
\* records of the set are tied, so the executor's order is total.
C25_CursorOrderByTotal ==
    walk.pc # "idle" =>
        LET orderBy == CursorOrderBy(walk.args)
            dir == IF "sortOrder" \in DOMAIN walk.args THEN walk.args.sortOrder ELSE DEFAULT_SORT_ORDER
        IN /\ IF "sortBy" \in DOMAIN walk.args /\ walk.args.sortBy # WalkCursorField
              THEN orderBy = <<[field |-> walk.args.sortBy, dir |-> dir],
                               [field |-> WalkCursorField, dir |-> dir]>>
              ELSE orderBy = <<[field |-> WalkCursorField, dir |-> dir]>>
           /\ \A i, j \in DOMAIN table : i # j =>
                \/ OrderedBefore(table[i], table[j], orderBy, 1)
                \/ OrderedBefore(table[j], table[i], orderBy, 1)

\* a walk sorted by rank, on which records are tied, with slug as the cursor
\* field, that has returned a page
C25_Witness ==
    /\ walk.pc = "ready" /\ walk.pages = 1
    /\ "sortBy" \in DOMAIN walk.args /\ walk.args.sortBy = "rank"
    /\ "cursorField" \in DOMAIN walk.args /\ walk.args.cursorField = "slug"
    /\ \E i, j \in DOMAIN table : i # j /\ table[i].rank = table[j].rank

-----------------------------------------------------------------------------
(* The helper functions of pagination, filters and the cache key, each      *)
(* applied once to an input of a bounded set.                               *)

\* the filter objects handed to combineFilters
FilterInputs == {[status |-> "ACTIVE"], [isActive |-> JsTrue], [tenantId |-> "t1"]}

\* the option objects handed to generateCacheKey
KeyOptions ==
    {Spread([model |-> m], [k \in K |-> pick[k]]) :
        m \in {"user", "order"},
        K \in SUBSET {"page", "filters", "select", "relationFilters"},
        pick \in [page : {2}, filters : {[status |-> "PAID"]}, select : {"{id:true}"},
                  relationFilters : {"{user:{isActive:true}}"}]}

InitPure ==
    /\ calls = [c \in CallIds |-> IdleCall]
    /\ now = 0
    /\ ticks = 0
    /\ cache = EmptyObject
    /\ posts = [c \in CallIds |-> NoPost]
    /\ logged = <<>>
    /\ table = <<>>
    /\ walk = IdleWalk
    /\ batch = IdleBatch
    /\ presets = EmptyObject
    /\ history = <<>>
    /\ outcome = NoOutcome
    /\ metricsCallback = Null
    /\ observed = <<>>
    /\ csv = NoCsv
    /\ \/ \E n \in 0..MaxRows, limit \in 1..MaxRows, cursorField \in {"id", "slug"} :
            eval = [pc |-> "input", fn |-> "processCursorResults",
                    args |-> [rows |-> [i \in 1..n |-> Record(i)], limit |-> limit,
                              cursorField |-> cursorField]]
       \/ \E total \in 0..MaxTotal, limit \in 1..MaxPageSize :
            eval = [pc |-> "input", fn |-> "calculateTotalPages",
                    args |-> [total |-> total, limit |-> limit]]
       \/ \E n \in 0..MaxFilters : \E filters \in [1..n -> FilterInputs] :
            eval = [pc |-> "input", fn |-> "combineFilters", args |-> filters]
       \/ \E a \in KeyOptions, b \in KeyOptions :
            eval = [pc |-> "input", fn |-> "generateCacheKey", args |-> <<a, b>>]

\* the function returns
Returned(out) == [pc |-> "done", fn |-> eval.fn, args |-> eval.args, out |-> out]

ApplyProcessCursorResults ==
    /\ eval.pc = "input" /\ eval.fn = "processCursorResults"
    /\ eval' = Returned(processCursorResults(eval.args.rows, eval.args.limit, eval.args.cursorField))
    /\ UNCHANGED <<calls, now, ticks, cache, hookVars, walkVars, batch, presetVars, monitorVars, csv>>

ApplyCalculateTotalPages ==
    /\ eval.pc = "input" /\ eval.fn = "calculateTotalPages"
    /\ eval' = Returned(calculateTotalPages(eval.args.total, eval.args.limit))
    /\ UNCHANGED <<calls, now, ticks, cache, hookVars, walkVars, batch, presetVars, monitorVars, csv>>

ApplyCombineFilters ==
    /\ eval.pc = "input" /\ eval.fn = "combineFilters"
    /\ eval' = Returned(combineFilters(eval.args))
    /\ UNCHANGED <<calls, now, ticks, cache, hookVars, walkVars, batch, presetVars, monitorVars, csv>>

\* the keys of two requests
ApplyGenerateCacheKey ==
    /\ eval.pc = "input" /\ eval.fn = "generateCacheKey"
    /\ eval' = Returned(<<generateCacheKey(eval.args[1]), generateCacheKey(eval.args[2])>>)
    /\ UNCHANGED <<calls, now, ticks, cache, hookVars, walkVars, batch, presetVars, monitorVars, csv>>

PureNext ==
    \/ ApplyProcessCursorResults
    \/ ApplyCalculateTotalPages
    \/ ApplyCombineFilters
    \/ ApplyGenerateCacheKey

SpecPure == InitPure /\ [][PureNext]_vars

Applied(fn) == eval.pc = "done" /\ eval.fn = fn

\* C23: processCursorResults(rows, limit, cursorField): with more than limit
\* rows, hasMore is true, data is the first limit rows, so that no row after
\* them is returned, and nextCursor is the cursorField value of the last row
\* of data; otherwise hasMore is false, data is all of rows, and nextCursor
\* is the cursorField value of the last row, or null for no rows.
C23_ProcessCursorResults ==
    Applied("processCursorResults") =>
        LET rows == eval.args.rows
            limit == eval.args.limit
            f == eval.args.cursorField
            data == eval.out.data
        IN IF Len(rows) > limit
           THEN /\ eval.out.hasMore
                /\ Len(data) = limit
                /\ \A i \in 1..limit : data[i] = rows[i]
                /\ \A i \in (limit + 1)..Len(rows) : \A j \in DOMAIN data : data[j] # rows[i]
                /\ eval.out.nextCursor = <<data[limit][f]>>
           ELSE /\ ~eval.out.hasMore
                /\ data = rows
                /\ eval.out.nextCursor = IF rows = <<>> THEN <<>> ELSE <<rows[Len(rows)][f]>>

\* limit + 1 rows, the last of them the lookahead row
C23_Witness ==
    /\ Applied("processCursorResults")
    /\ Len(eval.args.rows) = eval.args.limit + 1
    /\ eval.out.hasMore /\ Len(eval.out.data) = eval.args.limit

\* C26: for total >= 0 and limit >= 1, calculateTotalPages(total, limit) is
\* the least number of pages of limit rows that hold total rows, that is
\* ceil(total / limit), and it is 0 exactly when total is 0.
C26_TotalPagesIsCeiling ==
    Applied("calculateTotalPages") =>
        LET total == eval.args.total
            limit == eval.args.limit
            pages == eval.out
        IN /\ pages * limit >= total
           /\ (pages - 1) * limit < total \/ pages = 0
           /\ (pages = 0) = (total = 0)

\* a total that is not a multiple of the limit
C26_Witness ==
    /\ Applied("calculateTotalPages")
    /\ eval.args.total = 7 /\ eval.args.limit = 3 /\ eval.out = 3

\* C27: combineFilters of no input is the empty filter; of one input it is
\* that input, unwrapped; of two or more inputs it is one AND node whose
\* children are the inputs, one per input and in input order.
C27_CombineFilters ==
    Applied("combineFilters") =>
        LET filters == eval.args
            out == eval.out
        IN /\ Len(filters) = 0 => DOMAIN out = {}
           /\ Len(filters) = 1 => out = filters[1]
           /\ Len(filters) >= 2 =>
                /\ DOMAIN out = {"AND"}
                /\ Len(out.AND) = Len(filters)
                /\ \A i \in DOMAIN filters : out.AND[i] = filters[i]

\* three inputs, two of them the same filter
C27_Witness ==
    /\ Applied("combineFilters")
    /\ Len(eval.args) = 3 /\ eval.args[1] = eval.args[3] /\ eval.args[1] # eval.args[2]
    /\ Len(eval.out.AND) = 3

\* the options that take part in the executed plan, and the value an option
\* has in a request (with the builder's default when it is left out)
PlanOptionNames ==
    {"model", "page", "limit", "search", "searchFields", "filters", "relationFilters",
     "sortBy", "sortOrder", "include", "select"}
PlanOption(options, k) ==
    IF k \in DOMAIN options THEN <<options[k]>>
    ELSE IF k = "page" THEN <<DEFAULT_PAGE>>
    ELSE IF k = "limit" THEN <<DEFAULT_LIMIT>>
    ELSE <<>>

\* C28: two requests that differ in an option of the executed plan have
\* different cache keys.
C28_KeySeparatesRequests ==
    Applied("generateCacheKey") =>
        ((\E k \in PlanOptionNames : PlanOption(eval.args[1], k) # PlanOption(eval.args[2], k))
            => eval.out[1] # eval.out[2])

-----------------------------------------------------------------------------
(* Every decorator, two invocations of any of them, each executor call      *)
(* free to fail.                                                            *)

DecoratorCalls == {1, 2}

DecoratorOptions == {[model |-> "user"], [model |-> "order"]}

DecoratorNext ==
    \/ \E c \in DecoratorCalls, options \in DecoratorOptions :
         /\ NextToCall(c)
         /\ \/ \E cfg \in {<<>>, <<[key |-> "k1"]>>} : cachedQueryBuilder(c, options, cfg)
            \/ monitoredQueryBuilder(c, options)
            \/ queryAndExport(c, "json", options, <<1>>)
            \/ queryWithWebhook(c, options, "https://example.invalid/webhook", <<>>)
            \/ groupByQuery(c, [model |-> options.model, groupBy |-> <<"status">>])
    \/ \E c \in DecoratorCalls :
         /\ NextToCall(c)
         /\ \/ softDeleteQueryBuilder(c, [model |-> "user"], <<>>)
            \/ tenantQueryBuilder(c, [model |-> "user"], [tenantId |-> "t1"])
            \/ executePreset(c, "p", <<>>)
    \/ saveQueryPreset("p", [model |-> "user"])
    \/ \E callback \in {"a", ThrowingObserver} : onQueryMetrics(callback)
    \/ \E c \in DecoratorCalls :
         \/ cachedAfterGet(c)
         \/ cachedAfterQuery(c)
         \/ cachedAfterSet(c)
         \/ ReturnQuery(c)
         \/ monitoredAfterQuery(c)
         \/ exportAfterQuery(c)
         \/ webhookAfterQuery(c)
         \/ groupBySettles(c)

SpecDecorator == Init /\ [][DecoratorNext]_vars

\* C22: in every decorator the executor is invoked at most once per call, a
\* settled call is never run again, and a call that is rejected after its
\* executor was invoked is rejected with the executor's own failure,
\* unchanged; the only other rejections at that point come from the
\* decorator's own work on a successful result (serializing the webhook
\* body, calling the observer).
C22_NoRetryNoWrapping ==
    /\ [](\A c \in DecoratorCalls : calls[c].execs <= 1)
    /\ [][\A c \in DecoratorCalls :
            /\ Settled(c) => calls'[c] = calls[c]
            /\ (calls[c].execs = 1 /\ ~Settled(c) /\ calls'[c].pc = "rejected") =>
                 \/ calls'[c].error = "UpstreamExecutionFailure"
                 \/ /\ calls[c].kind = "webhook" /\ calls'[c].error = "TypeError"
                    /\ ~Serializable(queryBuilder(calls[c].passed, c).data)
                 \/ /\ calls[c].kind = "monitored" /\ calls'[c].error = "ObserverError"
                    /\ metricsCallback = ThrowingObserver]_vars

\* a cached call and a monitored call, each rejected with the failure of
\* the one executor call it made
C22_Witness ==
    /\ calls[1].kind = "cached" /\ calls[1].pc = "rejected"
    /\ calls[1].error = "UpstreamExecutionFailure" /\ calls[1].execs = 1
    /\ calls[2].kind = "monitored" /\ calls[2].pc = "rejected"
    /\ calls[2].error = "UpstreamExecutionFailure" /\ calls[2].execs = 1

=============================================================================
